---- MODULE Spec2Model ----
(***************************************************************************)
(* Cursor Bird: the hook-configuration reconciliation of the extension.    *)
(*                                                                         *)
(* The model covers HookManager (checkHooksExist, setupHooks and the       *)
(* helpers they call), the hooks.json part of the uninstall script, the    *)
(* hook scripts with the tracker and the panel, activate and deactivate,   *)
(* and the game of the panel with its best score.                          *)
(*                                                                         *)
(* Strings are sequences of fragments, so that String.includes is a real   *)
(* search for a contiguous run of fragments and === is equality of the     *)
(* whole sequence.  The marker 'cursor-bird' is one fragment.              *)
(*                                                                         *)
(* A file is a record: absent, unparsable text, or JSON text.  JSON text   *)
(* carries its layout (fmt) next to the value it denotes: JSON.parse drops *)
(* the layout and JSON.stringify(_, null, 2) always produces "indent2".    *)
(* The order of the keys of a JSON object is not modelled.                 *)
(***************************************************************************)
EXTENDS Integers, Sequences, FiniteSets, TLC

(* ------------------------------ bounds --------------------------------- *)

\* Largest number of entries, over beforeSubmitPrompt and stop together, in
\* a hooks.json that exists before the extension first touches it.
MaxEntries == 3

(* ------------------------------ strings -------------------------------- *)

EXTENSION_NAME == <<"cursor-bird">>

\* String.prototype.includes: t occurs in s as a contiguous run.
Includes(s, t) ==
    \E i \in 0..(Len(s) - Len(t)) : SubSeq(s, i + 1, i + Len(t)) = t

\* JavaScript truthiness of a string: the empty string and a missing
\* property (undefined) are both falsy and are both written <<>>.
Truthy(s) == s # <<>>

\* The predicate used by every filter and find of the hook code:
\*   h.command && h.command.includes(extensionName)
IsCursorBird(h, extensionName) ==
    Truthy(h.command) /\ Includes(h.command, extensionName)

(* --------------------------- paths and platform ------------------------ *)

Platforms == {"posix", "win32"}

\* context.extensionPath as the host reports it: the directory of an
\* installed release (named after the extension id), and a directory that
\* does not carry the extension's name (a development checkout; the test
\* suite's mock context uses '/mock/extension/path').
ReleaseExtensionPath == <<"/home/u/.cursor/extensions/pub.", "cursor-bird", "-2.0.0">>
MockExtensionPath == <<"/mock/extension/path">>
ExtensionPaths == {ReleaseExtensionPath, MockExtensionPath}

\* process.env.USERPROFILE || process.env.HOME
getHomeDirectoryProfileFirst(home, userprofile) ==
    IF userprofile # "" THEN userprofile ELSE home

\* process.env.HOME || process.env.USERPROFILE; "" stands for neither set.
getHomeDirectory(home, userprofile) ==
    IF home # "" THEN home ELSE userprofile

\* path.join(extPath, 'dist', 'hook', scriptName)
getOrCreateHookScriptPath(extPath, platform) ==
    extPath \o <<"/dist/hook/", IF platform = "win32" THEN "hook.bat" ELSE "hook.sh">>

\* startScript is the path itself; stopScript replaces a trailing
\* hook.sh / hook.bat by hook-stop.<ext of the platform>.
getHookScriptPaths(hookScriptPath, platform) ==
    LET n == Len(hookScriptPath)
        matches == n > 0 /\ hookScriptPath[n] \in {"hook.sh", "hook.bat"}
        stopName == IF platform = "win32" THEN "hook-stop.bat" ELSE "hook-stop.sh"
    IN  [startScript |-> hookScriptPath,
         stopScript  |-> IF matches
                         THEN SubSeq(hookScriptPath, 1, n - 1) \o <<stopName>>
                         ELSE hookScriptPath]

ExpectedPaths(extPath, platform) ==
    getHookScriptPaths(getOrCreateHookScriptPath(extPath, platform), platform)

(* ------------------------------ documents ------------------------------ *)

\* One element of a hook array: its command (<<>> when the property is
\* missing) and the rest of its properties, kept as one opaque value.
Entry(command, extra) == [command |-> command, extra |-> extra]

\* The entry the extension itself writes: { command: path }.
OwnEntry(path) == Entry(path, "")

OldStartCommand == <<"/old/", "cursor-bird", "/v1/hook.sh">>
OldStopCommand == <<"/old/", "cursor-bird", "/v1/hook-stop.sh">>
OtherStartCommand == <<"/extensions/other-ext/start.sh">>
OtherStopCommand == <<"/extensions/other-ext/stop.sh">>

\* Entries a hooks.json may hold under beforeSubmitPrompt before an
\* operation runs: the entry for the current script, the entry of an earlier
\* install, another tool's entry with a property of its own, and an entry
\* that has no command.
StartEntries(expected) ==
    { OwnEntry(expected.startScript),
      OwnEntry(OldStartCommand),
      Entry(OtherStartCommand, "timeout:5"),
      Entry(<<>>, "script:run") }

StopEntries(expected) ==
    { OwnEntry(expected.stopScript),
      OwnEntry(OldStopCommand),
      Entry(OtherStopCommand, "timeout:5"),
      Entry(<<>>, "script:run") }

\* A property that may be missing: present = FALSE is undefined.
NoArray == [present |-> FALSE, items |-> <<>>]
Array(items) == [present |-> TRUE, items |-> items]

\* The value of the "hooks" key.  afterFileEdit stands for every hook kind
\* the extension does not use.
NoHooks == [present |-> FALSE, beforeSubmitPrompt |-> NoArray, stop |-> NoArray,
            afterFileEdit |-> NoArray]
Hooks(b, s, o) == [present |-> TRUE, beforeSubmitPrompt |-> b, stop |-> s,
                   afterFileEdit |-> o]

\* A JSON value at the top of hooks.json: null, an array, or an object with
\* its "hooks" key and the rest of its keys (rest, one opaque value).
JsonNull == [k |-> "null", hooks |-> NoHooks, rest |-> ""]
JsonArray == [k |-> "array", hooks |-> NoHooks, rest |-> ""]
JsonObject(hooks, rest) == [k |-> "object", hooks |-> hooks, rest |-> rest]

\* let hooks: HooksJson = { version: 1, hooks: {} }
FreshDocument == JsonObject(Hooks(NoArray, NoArray, NoArray), "version:1")

(* -------------------------------- files -------------------------------- *)

AbsentFile == [t |-> "absent", fmt |-> "", v |-> JsonNull]
GarbageFile == [t |-> "garbage", fmt |-> "", v |-> JsonNull]
JsonFile(fmt, v) == [t |-> "json", fmt |-> fmt, v |-> v]

\* fs.existsSync
existsSync(file) == file.t # "absent"

\* JSON.parse(fs.readFileSync(file)): throws on text that is not JSON,
\* otherwise yields the value and forgets the layout.
JSONparse(file) ==
    IF file.t = "json" THEN [threw |-> FALSE, v |-> file.v]
                       ELSE [threw |-> TRUE, v |-> JsonNull]

\* JSON.stringify(doc, null, 2): two-space layout.  Properties set on an
\* array object are not serialised; an empty object {} for "hooks" is.
JSONstringify(doc) ==
    JsonFile("indent2",
             IF doc.k = "object" THEN doc
             ELSE IF doc.k = "array" THEN JsonArray
             ELSE JsonNull)

(* ------------------------- array helpers ------------------------------- *)

\* Array.prototype.length of a property that may be missing.
Items(arr) == IF arr.present THEN arr.items ELSE <<>>

\* The result of Array.prototype.find: found = FALSE is undefined.
NotFound == [found |-> FALSE, command |-> <<>>]
Found(h) == [found |-> TRUE, command |-> h.command]

(* ---------------------------- checkHooksExist -------------------------- *)

\* hooks.hooks?.<kind>?.find(h => h.command && h.command.includes(name)):
\* undefined when hooks.hooks or the array is missing, else the first match.
FindHook(arr, extensionName) ==
    LET items == Items(arr)
        matching == { i \in 1..Len(items) : IsCursorBird(items[i], extensionName) }
    IN  IF matching = {} THEN NotFound
        ELSE Found(items[CHOOSE i \in matching : \A j \in matching : i <= j])

\* Reading hooks.hooks of null throws a TypeError; of an array it is
\* undefined, so both finds are undefined.
findCursorBirdHooks(hooks, extensionName) ==
    IF hooks.k = "null"
    THEN [threw |-> TRUE, startHook |-> NotFound, stopHook |-> NotFound]
    ELSE [threw |-> FALSE,
          startHook |-> FindHook(hooks.hooks.beforeSubmitPrompt, extensionName),
          stopHook  |-> FindHook(hooks.hooks.stop, extensionName)]

\* validateHookPaths without the two fs.existsSync tests.
validateHookPathsNoDiskCheck(startHook, stopHook, expectedStart, expectedStop, onDisk) ==
    \/ ~startHook.found \/ ~stopHook.found
    \/ startHook.command # expectedStart
    \/ stopHook.command # expectedStop

\* needsUpdate of validateHookPaths; onDisk is the set of paths for which
\* fs.existsSync is true.
validateHookPaths(startHook, stopHook, expectedStart, expectedStop, onDisk) ==
    LET hasStart == startHook.found
        hasStop == stopHook.found
        startIsCorrect == startHook.found /\ startHook.command = expectedStart
        stopIsCorrect == stopHook.found /\ stopHook.command = expectedStop
        startExists == IF startHook.found /\ Truthy(startHook.command)
                       THEN startHook.command \in onDisk ELSE FALSE
        stopExists == IF stopHook.found /\ Truthy(stopHook.command)
                      THEN stopHook.command \in onDisk ELSE FALSE
    IN  ~hasStart \/ ~hasStop \/ ~startIsCorrect \/ ~stopIsCorrect
            \/ ~startExists \/ ~stopExists

\* HookCheckResult; needsUpdate is undefined (written FALSE) when exists is false.
CheckResult(exists, needsUpdate, start, stop) ==
    [exists |-> exists, needsUpdate |-> needsUpdate, start |-> start, stop |-> stop]
HooksNotFound == CheckResult(FALSE, FALSE, <<>>, <<>>)

\* checkGlobalHooksFile that reports hooks only when both are found (the
\* test of the earlier release: startHook && stopHook).
checkGlobalHooksFileBoth(file, expected, onDisk) ==
    LET parsed == JSONparse(file)
        found == findCursorBirdHooks(parsed.v, EXTENSION_NAME)
    IN  IF parsed.threw \/ found.threw
        THEN [threw |-> TRUE, returned |-> FALSE, result |-> HooksNotFound]
        ELSE IF found.startHook.found /\ found.stopHook.found
        THEN [threw |-> FALSE, returned |-> TRUE,
              result |-> CheckResult(TRUE,
                            validateHookPaths(found.startHook, found.stopHook,
                                expected.startScript, expected.stopScript, onDisk),
                            found.startHook.command, found.stopHook.command)]
        ELSE [threw |-> FALSE, returned |-> FALSE, result |-> HooksNotFound]

\* The body of the inner try block of checkHooksExist: parse the file and
\* look for the extension's hooks.  threw: an exception left the block.
checkGlobalHooksFile(file, expected, onDisk) ==
    LET parsed == JSONparse(file)
        found == findCursorBirdHooks(parsed.v, EXTENSION_NAME)
    IN  IF parsed.threw \/ found.threw
        THEN [threw |-> TRUE, returned |-> FALSE, result |-> HooksNotFound]
        ELSE IF found.startHook.found \/ found.stopHook.found
        THEN [threw |-> FALSE, returned |-> TRUE,
              result |-> CheckResult(TRUE,
                            validateHookPaths(found.startHook, found.stopHook,
                                expected.startScript, expected.stopScript, onDisk),
                            found.startHook.command, found.stopHook.command)]
        ELSE [threw |-> FALSE, returned |-> FALSE, result |-> HooksNotFound]

\* checkHooksExist(expectedScriptPath): threw is whether an exception
\* reaches the caller, result what is returned otherwise.
checkHooksExist(expectedScriptPath, platform, homeDir, file, onDisk) ==
    LET expected == getHookScriptPaths(expectedScriptPath, platform)
        inner == checkGlobalHooksFile(file, expected, onDisk)
    IN  IF homeDir # "" /\ existsSync(file) /\ ~inner.threw /\ inner.returned
        THEN [threw |-> FALSE, result |-> inner.result]
        ELSE [threw |-> FALSE, result |-> HooksNotFound]

(* ------------------------------ updateHooks ---------------------------- *)

\* KeepHook with a filter that drops every cursor-bird entry, the current
\* one included.
KeepHookDropsCurrent(h, extensionName, script) ==
    ~IsCursorBird(h, extensionName)

\* KeepHook without the guard for a missing command: an entry is kept as
\* foreign only when it has a command that lacks the marker.
KeepHookNeedsCommand(h, extensionName, script) ==
    IF Truthy(h.command) /\ ~Includes(h.command, extensionName)
    THEN TRUE ELSE h.command = script

\* KeepHook that never removes an entry (hooks are only ever added).
KeepHookNeverRemoves(h, extensionName, script) == TRUE

\* The callback of the two filters of updateHooks: an entry that is not
\* cursor-bird's is kept; a cursor-bird entry is kept only when its command
\* is the current script.
KeepHook(h, extensionName, script) ==
    IF ~IsCursorBird(h, extensionName) THEN TRUE ELSE h.command = script

\* hooks.some(h => h.command === script)
SomeCommand(items, script) == \E i \in 1..Len(items) : items[i].command = script

\* UpdateKind that rebuilds the array as the foreign entries followed by the
\* cursor-bird entries it keeps.
UpdateKindOwnedLast(arr, extensionName, script) ==
    LET original == Items(arr)
        foreign == SelectSeq(original, LAMBDA h : ~IsCursorBird(h, extensionName))
        current == SelectSeq(original, LAMBDA h : IsCursorBird(h, extensionName)
                                                  /\ h.command = script)
        kept == foreign \o current
        exists == \E i \in 1..Len(kept) : kept[i].command = script
    IN  [items   |-> IF exists THEN kept ELSE Append(kept, OwnEntry(script)),
         removed |-> kept # original,
         added   |-> ~exists]

\* One hook kind through updateHooks: a missing array becomes [], stale
\* cursor-bird entries are filtered out, and { command: script } is pushed
\* when no entry has that command.  removed and added are the two reasons
\* for which updateHooks sets modified.
UpdateKind(arr, extensionName, script) ==
    LET original == Items(arr)
        kept == SelectSeq(original, LAMBDA h : KeepHook(h, extensionName, script))
        exists == SomeCommand(kept, script)
    IN  [items   |-> IF exists THEN kept ELSE Append(kept, OwnEntry(script)),
         removed |-> Len(kept) # Len(original),
         added   |-> ~exists]

\* updateHooks(hooks, extensionName, startScript, stopScript): hooks is
\* changed in place and modified is returned; hooks.hooks.beforeSubmitPrompt
\* of null throws a TypeError.
updateHooks(hooks, extensionName, startScript, stopScript) ==
    LET b == UpdateKind(hooks.hooks.beforeSubmitPrompt, extensionName, startScript)
        s == UpdateKind(hooks.hooks.stop, extensionName, stopScript)
    IN  IF hooks.k = "null"
        THEN [threw |-> TRUE, hooks |-> hooks, modified |-> FALSE]
        ELSE [threw |-> FALSE,
              hooks |-> [hooks EXCEPT !.hooks.beforeSubmitPrompt = Array(b.items),
                                      !.hooks.stop = Array(s.items)],
              modified |-> b.removed \/ s.removed \/ b.added \/ s.added]

(* -------------------------- setupHooksFileGlobal ----------------------- *)

\* LoadHooks that copies the two arrays it knows into a fresh document.
LoadHooksRebuilt(file) ==
    LET parsed == JSONparse(file)
    IN  IF ~existsSync(file) \/ parsed.threw THEN FreshDocument
        ELSE IF parsed.v.k = "null" THEN JsonNull
        ELSE [FreshDocument EXCEPT
                !.hooks.beforeSubmitPrompt = parsed.v.hooks.beforeSubmitPrompt,
                !.hooks.stop = parsed.v.hooks.stop]

\* The value of the local variable hooks after the read block of
\* setupHooksFileGlobal: the fresh document when the file is absent or is
\* not JSON; otherwise the parsed value with hooks.hooks defaulted to {}.
\* For null the assignment happens, reading hooks.hooks then throws and the
\* catch leaves hooks = null.
LoadHooks(file) ==
    LET parsed == JSONparse(file)
    IN  IF ~existsSync(file) \/ parsed.threw THEN FreshDocument
        ELSE IF parsed.v.k = "null" THEN JsonNull
        ELSE IF parsed.v.hooks.present THEN parsed.v
        ELSE [parsed.v EXCEPT !.hooks = Hooks(NoArray, NoArray, NoArray)]

\* WriteIfModified that writes on every run.
WriteAlways(file, hooks, modified) ==
    [wrote |-> TRUE, file |-> JSONstringify(hooks)]

\* if (modified) fs.writeFileSync(hooksFilePath, JSON.stringify(hooks, null, 2))
WriteIfModified(file, hooks, modified) ==
    IF modified THEN [wrote |-> TRUE, file |-> JSONstringify(hooks)]
                ELSE [wrote |-> FALSE, file |-> file]

\* The messages of the errors setupHooksFileGlobal can throw.
NullHooksError == "Cannot read properties of null (reading 'hooks')"
WriteError == "EACCES: permission denied"

\* setupHooksFileGlobal that catches the failure of the write and carries on.
setupHooksFileGlobalSwallowsWrite(file, hookScriptPath, platform, writable) ==
    LET expected == getHookScriptPaths(hookScriptPath, platform)
        updated == updateHooks(LoadHooks(file), EXTENSION_NAME,
                               expected.startScript, expected.stopScript)
        written == WriteIfModified(file, updated.hooks, updated.modified)
    IN  IF updated.threw
        THEN [threw |-> TRUE, error |-> NullHooksError, file |-> file,
              wrote |-> FALSE, modified |-> FALSE]
        ELSE IF updated.modified /\ ~writable
        THEN [threw |-> FALSE, error |-> "", file |-> file, wrote |-> FALSE,
              modified |-> updated.modified]
        ELSE [threw |-> FALSE, error |-> "", file |-> written.file,
              wrote |-> written.wrote, modified |-> updated.modified]

\* setupHooksFileGlobal(hooksFilePath, hookScriptPath): the file afterwards,
\* whether it was written, and the returned flag (or threw, with the message
\* of the error).  writable: whether <home>/.cursor accepts writes; when it
\* does not, mkdirSync (file absent) or writeFileSync throws, and both are
\* reached exactly when the document is to be written.
setupHooksFileGlobal(file, hookScriptPath, platform, writable) ==
    LET expected == getHookScriptPaths(hookScriptPath, platform)
        updated == updateHooks(LoadHooks(file), EXTENSION_NAME,
                               expected.startScript, expected.stopScript)
        written == WriteIfModified(file, updated.hooks, updated.modified)
    IN  IF updated.threw
        THEN [threw |-> TRUE, error |-> NullHooksError, file |-> file,
              wrote |-> FALSE, modified |-> FALSE]
        ELSE IF written.wrote /\ ~writable
        THEN [threw |-> TRUE, error |-> WriteError, file |-> file,
              wrote |-> FALSE, modified |-> FALSE]
        ELSE [threw |-> FALSE, error |-> "", file |-> written.file,
              wrote |-> written.wrote, modified |-> updated.modified]

(* ------------------------------- setupHooks ---------------------------- *)

\* ensureHookScript(scriptPath): afterwards the start and stop wrapper
\* scripts are on disk.
ensureHookScript(onDisk, scriptPath, platform) ==
    LET expected == getHookScriptPaths(scriptPath, platform)
    IN  onDisk \cup {expected.startScript, expected.stopScript}

\* HookSetupResult, with the file system afterwards.  modified is undefined
\* (written FALSE) on failure.
SetupResult(success, message, modified, wrote, file, onDisk) ==
    [success |-> success, message |-> message, modified |-> modified,
     wrote |-> wrote, file |-> file, onDisk |-> onDisk]

NodeMissingMessage == "Node.js is required for hooks but was not found in PATH"
NoHomeMessage == "Home directory not found"
ConfiguredMessage == "Hooks configured globally"

\* setupHooks without the Node.js probe.
setupHooksNoNodeProbe(hasNodeJs, writable, extPath, platform, homeDir, file, onDisk) ==
    LET hookScriptPath == getOrCreateHookScriptPath(extPath, platform)
        scripts == ensureHookScript(onDisk, hookScriptPath, platform)
        global == setupHooksFileGlobal(file, hookScriptPath, platform, writable)
    IN  IF homeDir = ""
        THEN SetupResult(FALSE, <<NoHomeMessage>>, FALSE, FALSE, file, scripts)
        ELSE IF global.threw
        THEN SetupResult(FALSE, <<"Error: ", global.error>>, FALSE, FALSE, file, scripts)
        ELSE SetupResult(TRUE, <<ConfiguredMessage>>, global.modified, global.wrote,
                         global.file, scripts)

\* setupHooks(scriptPath): the Node.js probe, the scripts, then the global
\* hooks file; every exception is turned into success = false with the
\* message 'Error: ' + the exception's message.
setupHooks(hasNodeJs, writable, extPath, platform, homeDir, file, onDisk) ==
    LET hookScriptPath == getOrCreateHookScriptPath(extPath, platform)
        scripts == ensureHookScript(onDisk, hookScriptPath, platform)
        global == setupHooksFileGlobal(file, hookScriptPath, platform, writable)
    IN  IF ~hasNodeJs
        THEN SetupResult(FALSE, <<NodeMissingMessage>>, FALSE, FALSE, file, onDisk)
        ELSE IF homeDir = ""
        THEN SetupResult(FALSE, <<NoHomeMessage>>, FALSE, FALSE, file, scripts)
        ELSE IF global.threw
        THEN SetupResult(FALSE, <<"Error: ", global.error>>, FALSE, FALSE, file, scripts)
        ELSE SetupResult(TRUE, <<ConfiguredMessage>>, global.modified, global.wrote,
                         global.file, scripts)

\* What handleHookSetupResult shows: the kind of notification and its text.
Notification(kind, text) == [kind |-> kind, text |-> text]
NoNotification == Notification("none", <<>>)

\* handleHookSetupResult(setupResult, hookManager, source, context): a
\* failure is shown as a warning (activation) or as an error (command), with
\* the result's message in it; a success is shown as information, except on
\* activation when hooks.json was not modified.  The marks of the messages
\* are written "x " and "v ".
handleHookSetupResult(setupResult, source) ==
    IF ~setupResult.success
    THEN IF source = "activate"
         THEN Notification("warning", <<"Cursor Bird: ">> \o setupResult.message
                                      \o <<". Would you like to set up hooks manually?">>)
         ELSE Notification("error", <<"x ">> \o setupResult.message)
    ELSE IF source = "activate"
    THEN IF setupResult.modified
         THEN Notification("information",
                           <<"Cursor Bird: Hooks configured. Please restart Cursor">>)
         ELSE NoNotification
    ELSE Notification("information",
                      <<"v ">> \o setupResult.message
                      \o (IF setupResult.modified THEN <<" Please restart Cursor">>
                                                  ELSE <<>>))

\* The files ensureHookScript generates: the two Node.js scripts and the two
\* wrapper scripts (hook.sh / hook.bat and hook-stop.sh / hook-stop.bat).
ScriptNames == {"hook-node.js", "hook-stop-node.js", "startScript", "stopScript"}

\* The content of a file, as a sequence of its parts; <<>> is no file.
NoContent == <<>>

\* What this release generates for a file: generateNodeHookScript(delta) for
\* the Node.js scripts, the platform's wrapper around the Node.js script
\* for the others.
Generated(name, platform) ==
    IF name = "hook-node.js" THEN <<"generateNodeHookScript", "+1">>
    ELSE IF name = "hook-stop-node.js" THEN <<"generateNodeHookScript", "-1">>
    ELSE <<IF platform = "win32" THEN "@echo off" ELSE "#!/bin/sh", "node",
           IF name = "startScript" THEN "hook-node.js" ELSE "hook-stop-node.js">>

\* What release 1.0.0 generated for a file (its Node.js scripts wrote the
\* zero count, its wrappers were the same).
GeneratedBefore(name, platform) ==
    IF name \in {"hook-node.js", "hook-stop-node.js"}
    THEN Generated(name, platform) \o <<"1.0.0">>
    ELSE Generated(name, platform)

\* writeFileIfChanged that does not compare.
writeFileAlways(content, newContent) ==
    [content |-> newContent, written |-> TRUE]

\* writeFileIfChanged(filePath, newContent): the content afterwards and
\* whether the file was written.  A file that exists and reads equal to
\* newContent is left alone; every other file is written (as is a file
\* whose read fails; the files considered here can be read).
writeFileIfChanged(content, newContent) ==
    IF content # NoContent /\ content = newContent
    THEN [content |-> content, written |-> FALSE]
    ELSE [content |-> newContent, written |-> TRUE]

\* ensureHookScript(scriptPath), with the content of the files: each of the
\* four files goes through writeFileIfChanged.
ensureHookScriptContents(files, platform) ==
    LET result == [n \in ScriptNames |-> writeFileIfChanged(files[n], Generated(n, platform))]
    IN  [files |-> [n \in ScriptNames |-> result[n].content],
         written |-> { n \in ScriptNames : result[n].written }]

\* ensureScriptsExist(): the scripts afterwards and whether it succeeded.
\* scriptsOk: whether the extension directory accepts writes; when it does
\* not, mkdirSync or the first writeFileSync throws and nothing is written.
ensureScriptsExist(scriptsOk, onDisk, extPath, platform) ==
    IF scriptsOk
    THEN [success |-> TRUE,
          onDisk |-> ensureHookScript(onDisk, getOrCreateHookScriptPath(extPath, platform),
                                      platform)]
    ELSE [success |-> FALSE, onDisk |-> onDisk]

ScriptsFailedMessage == "Failed to ensure hook scripts exist"
AlreadyConfiguredMessage == "Hooks already configured correctly (global)"

\* What setupHooksIfNeeded returns, with whether it called checkHooksExist
\* and setupHooks.
IfNeeded(setupResult, checkResult, checked, setupCalled) ==
    [setupResult |-> setupResult, checkResult |-> checkResult,
     checked |-> checked, setupCalled |-> setupCalled]

\* setupHooksIfNeeded that runs setupHooks whatever checkHooksExist returns.
setupHooksAlways(scriptsOk, hasNodeJs, writable, extPath, platform, homeDir, file, onDisk) ==
    LET scripts == ensureScriptsExist(scriptsOk, onDisk, extPath, platform)
        check == checkHooksExist(getOrCreateHookScriptPath(extPath, platform), platform,
                                 homeDir, file, scripts.onDisk).result
    IN  IF ~scripts.success
        THEN IfNeeded(SetupResult(FALSE, <<ScriptsFailedMessage>>, FALSE, FALSE, file, onDisk),
                      HooksNotFound, FALSE, FALSE)
        ELSE IfNeeded(setupHooks(hasNodeJs, writable, extPath, platform, homeDir, file,
                                 scripts.onDisk),
                      check, TRUE, TRUE)

\* setupHooksIfNeeded(): the scripts first, then checkHooksExist, then
\* setupHooks when the hooks do not exist or need an update.
setupHooksIfNeeded(scriptsOk, hasNodeJs, writable, extPath, platform, homeDir, file, onDisk) ==
    LET scripts == ensureScriptsExist(scriptsOk, onDisk, extPath, platform)
        check == checkHooksExist(getOrCreateHookScriptPath(extPath, platform), platform,
                                 homeDir, file, scripts.onDisk).result
    IN  IF ~scripts.success
        THEN IfNeeded(SetupResult(FALSE, <<ScriptsFailedMessage>>, FALSE, FALSE, file, onDisk),
                      HooksNotFound, FALSE, FALSE)
        ELSE IF ~check.exists \/ check.needsUpdate
        THEN IfNeeded(setupHooks(hasNodeJs, writable, extPath, platform, homeDir, file,
                                 scripts.onDisk),
                      check, TRUE, TRUE)
        ELSE IfNeeded(SetupResult(TRUE, <<AlreadyConfiguredMessage>>, FALSE, FALSE, file,
                                  scripts.onDisk),
                      check, TRUE, FALSE)

(* -------------------------------- uninstall ---------------------------- *)

\* RemoveKind whose filter keeps only the entries that have a command
\* without the marker.
RemoveKindDropsCommandless(arr, extensionName) ==
    LET keep == SelectSeq(Items(arr), LAMBDA h : Truthy(h.command)
                                               /\ ~IsCursorBird(h, extensionName))
    IN  IF arr.present /\ Len(keep) < Len(arr.items)
        THEN [arr |-> Array(keep), removed |-> Len(arr.items) - Len(keep)]
        ELSE [arr |-> arr, removed |-> 0]

\* RemoveKind that leaves the array as it is.
RemoveKindRemovesNothing(arr, extensionName) == [arr |-> arr, removed |-> 0]

\* One hook kind through the uninstall script: when the array is there and
\* holds cursor-bird entries, they are filtered out.
RemoveKind(arr, extensionName) ==
    LET toRemove == SelectSeq(Items(arr), LAMBDA h : IsCursorBird(h, extensionName))
    IN  IF arr.present /\ Len(toRemove) > 0
        THEN [arr |-> Array(SelectSeq(arr.items,
                                      LAMBDA h : ~IsCursorBird(h, extensionName))),
              removed |-> Len(toRemove)]
        ELSE [arr |-> arr, removed |-> 0]

\* removeGlobalHooks without the try/catch around JSON.parse: the parse
\* error reaches the top level.
removeGlobalHooksNoCatch(homeDir, file) ==
    LET parsed == JSONparse(file)
        hooks == parsed.v
        b == RemoveKind(hooks.hooks.beforeSubmitPrompt, EXTENSION_NAME)
        s == RemoveKind(hooks.hooks.stop, EXTENSION_NAME)
        modified == b.removed > 0 \/ s.removed > 0
        cleaned == [hooks EXCEPT !.hooks.beforeSubmitPrompt = b.arr,
                                 !.hooks.stop = s.arr]
    IN  IF homeDir = "" \/ ~existsSync(file)
        THEN [threw |-> FALSE, file |-> file, wrote |-> FALSE, removedCount |-> 0]
        ELSE IF parsed.threw \/ hooks.k = "null"
        THEN [threw |-> TRUE, file |-> file, wrote |-> FALSE, removedCount |-> 0]
        ELSE IF ~modified
        THEN [threw |-> FALSE, file |-> file, wrote |-> FALSE, removedCount |-> 0]
        ELSE [threw |-> FALSE, file |-> JSONstringify(cleaned), wrote |-> TRUE,
              removedCount |-> b.removed + s.removed]

\* Step 2 of the uninstall script: remove the extension's entries from the
\* global hooks.json.  threw: an exception reaches the top level.
removeGlobalHooks(homeDir, file) ==
    LET parsed == JSONparse(file)
        hooks == parsed.v
        b == RemoveKind(hooks.hooks.beforeSubmitPrompt, EXTENSION_NAME)
        s == RemoveKind(hooks.hooks.stop, EXTENSION_NAME)
        modified == b.removed > 0 \/ s.removed > 0
        cleaned == [hooks EXCEPT !.hooks.beforeSubmitPrompt = b.arr,
                                 !.hooks.stop = s.arr]
    IN  IF homeDir = "" \/ ~existsSync(file) \/ parsed.threw \/ hooks.k = "null"
               \/ ~modified
        THEN [threw |-> FALSE, file |-> file, wrote |-> FALSE, removedCount |-> 0]
        ELSE [threw |-> FALSE, file |-> JSONstringify(cleaned), wrote |-> TRUE,
              removedCount |-> b.removed + s.removed]

(* ---------------------------- the status file -------------------------- *)

\* The largest count a start event is taken at.
MaxCount == 2

\* The workspace folders that are open, one window each.
Workspace1 == "/projects/workspace1"
Workspace2 == "/projects/workspace2"
Workspaces == {Workspace1, Workspace2}

\* <workspace>/.cursor/cursor-bird-status.json and its .tmp sibling: absent,
\* the JSON text of { activeCount, lastUpdate }, a file that was opened for
\* writing and holds nothing yet, or text that is not JSON.
StatusAbsent == [t |-> "absent", activeCount |-> 0]
StatusJson(n) == [t |-> "json", activeCount |-> n]
StatusEmpty == [t |-> "empty", activeCount |-> 0]
StatusGarbage == [t |-> "garbage", activeCount |-> 0]

(* ----------------------------- the hook script ------------------------- *)

\* The workspace the script works for: workspace_roots[0] of the JSON on stdin,
\* or the current directory.
WorkspacePathCwdOnly(roots, cwd) == cwd

WorkspacePath(roots, cwd) == IF Len(roots) > 0 THEN roots[1] ELSE cwd

\* isInWorkspace: not empty, not the home directory, not a root path.
isInWorkspace(workspacePath, homeDir) ==
    workspacePath # "" /\ workspacePath # homeDir /\ workspacePath # "/"

\* data.activeCount after the read block: the default 0 when the file is
\* missing, cannot be read or is not JSON.
ReadData(content) == IF content.t = "json" THEN content.activeCount ELSE 0

\* The new count without the clamp.
NewCountUnclamped(activeCount, delta) == activeCount + delta

\* Math.max(0, (data.activeCount || 0) + delta)
NewCount(activeCount, delta) ==
    IF activeCount + delta > 0 THEN activeCount + delta ELSE 0

\* The write block that writes every count, zero included.
WriteStatusAlways(status, temp, count) ==
    [status |-> StatusJson(count), temp |-> StatusAbsent]

\* The write block run to its end: a zero count unlinks the status file when
\* it exists; any other count is written to the .tmp sibling, which is then
\* renamed over the status file.
WriteStatus(status, temp, count) ==
    IF count = 0 THEN [status |-> StatusAbsent, temp |-> temp]
                 ELSE [status |-> StatusJson(count), temp |-> StatusAbsent]

\* One run of the generated hook script with no other process in between.
runHookScript(status, temp, delta) ==
    WriteStatus(status, temp, NewCount(ReadData(status), delta))

(* ------------------------- the tracker and the panel ------------------- *)

\* WebviewManager: whether the panel exists, and isPaused.
Webview(panel, isPaused) == [panel |-> panel, isPaused |-> isPaused]
NoPanel == Webview(FALSE, TRUE)

showPaused(webview) == Webview(TRUE, TRUE)
startRunning(webview) == Webview(TRUE, FALSE)
stopAndDispose(webview) == NoPanel
toggle(webview) ==
    IF webview.panel THEN stopAndDispose(webview) ELSE showPaused(webview)

\* readStatusFile that returns when the file is missing, without the reset.
readStatusFileNoReset(content, activeAgentCount) ==
    IF content.t = "json" /\ content.activeCount # activeAgentCount
    THEN [activeAgentCount |-> content.activeCount,
          onChange |-> IF content.activeCount > 0 THEN "true" ELSE "false"]
    ELSE [activeAgentCount |-> activeAgentCount, onChange |-> "none"]

\* AgentTracker.readStatusFile: the new activeAgentCount and the argument
\* onChange is called with ("none": not called).  A missing file resets a
\* positive count; a file that cannot be parsed changes nothing.
readStatusFile(content, activeAgentCount) ==
    IF content.t = "absent"
    THEN IF activeAgentCount > 0
         THEN [activeAgentCount |-> 0, onChange |-> "false"]
         ELSE [activeAgentCount |-> activeAgentCount, onChange |-> "none"]
    ELSE IF content.t = "json" /\ content.activeCount # activeAgentCount
    THEN [activeAgentCount |-> content.activeCount,
          onChange |-> IF content.activeCount > 0 THEN "true" ELSE "false"]
    ELSE [activeAgentCount |-> activeAgentCount, onChange |-> "none"]

\* The callback that shows the panel whatever autoShow says.
onChangeAlwaysShows(hasActiveAgents, autoShow, webview) ==
    IF hasActiveAgents = "true" THEN showPaused(webview)
    ELSE IF hasActiveAgents = "false" THEN stopAndDispose(webview)
    ELSE webview

\* The callback activate gives the tracker.
onChange(hasActiveAgents, autoShow, webview) ==
    IF hasActiveAgents = "true"
    THEN IF autoShow THEN showPaused(webview) ELSE webview
    ELSE IF hasActiveAgents = "false" THEN stopAndDispose(webview)
    ELSE webview

(* -------------------------------- the game ----------------------------- *)

\* The scores considered, and the messages in flight in one direction.
MaxScore == 2
MaxInFlight == 2

Max(a, b) == IF a > b THEN a ELSE b

\* game.js: running, dead, startedOnce, score and best.  The bird and the
\* pipes are left to the frames that say what update() finds.
Game(running, dead, startedOnce, score, best) ==
    [running |-> running, dead |-> dead, startedOnce |-> startedOnce,
     score |-> score, best |-> best]

\* The variables as the script initialises them.
NewGame == Game(FALSE, FALSE, FALSE, 0, 0)

\* resetGame()
resetGame(g) == [g EXCEPT !.score = 0, !.dead = FALSE]

\* startFromPaused(): either branch leaves score = 0.
startFromPaused(g) ==
    [g EXCEPT !.startedOnce = TRUE, !.dead = FALSE, !.running = TRUE, !.score = 0]

\* pauseGame()
pauseGame(g) == [g EXCEPT !.running = FALSE]

\* The keydown listener, for the flap key; flap() moves the bird only.
keydown(g) ==
    IF ~g.startedOnce \/ g.dead THEN startFromPaused(g)
    ELSE IF ~g.running THEN [g EXCEPT !.running = TRUE]
    ELSE g

\* A message between the extension and the page of the panel.  The page
\* hands pause and start to the game as __game_control.
Message(type, bestScore) == [type |-> type, bestScore |-> bestScore]

\* The message listener of the game.
onMessage(g, msg) ==
    IF msg.type = "pause" THEN pauseGame(g)
    ELSE IF msg.type = "start"
    THEN IF ~g.startedOnce THEN startFromPaused(g) ELSE [g EXCEPT !.running = TRUE]
    ELSE IF msg.type = "setBestScore" THEN [g EXCEPT !.best = Max(g.best, msg.bestScore)]
    ELSE IF msg.type = "resetBestScore" THEN [g EXCEPT !.best = 0]
    ELSE IF msg.type = "updateConfig"
    THEN IF g.running \/ g.startedOnce THEN resetGame(g) ELSE g
    ELSE g

\* update() when the bird has passed a pipe: the score, the best score, and
\* the updateBestScore message posted when best has grown.
Scored(g) ==
    LET best == Max(g.best, g.score + 1)
    IN  [game |-> [g EXCEPT !.score = g.score + 1, !.best = best],
         posted |-> IF best > g.best THEN <<Message("updateBestScore", best)>> ELSE <<>>]

\* update() when the bird has hit the ground, the ceiling or a pipe.
Collided(g) == [g EXCEPT !.dead = TRUE, !.running = FALSE]

\* WebviewManager and its panel: storage (the value stored under
\* cursorBirdBestScore), bestScore, whether the panel exists, whether
\* loadFullHtml has set the page of the game, the messages posted to the
\* page and by the page, and the game of the page.
Panel(storage, bestScore, panel, loaded, toWebview, toExtension, page) ==
    [storage |-> storage, bestScore |-> bestScore, panel |-> panel, loaded |-> loaded,
     toWebview |-> toWebview, toExtension |-> toExtension, page |-> page]

\* panel.webview.onDidReceiveMessage
onDidReceiveMessage(m, msg) ==
    IF msg.type = "updateBestScore"
    THEN [m EXCEPT !.bestScore = msg.bestScore, !.storage = msg.bestScore]
    ELSE m

(* ------------------------------- deactivate ---------------------------- *)

\* What deactivate() leaves of the status file and its .tmp sibling, and
\* whether it throws.  failing names the file whose unlinkSync throws (no
\* permission, a busy file), if any.
Deactivated(threw, status, temp) == [threw |-> threw, status |-> status, temp |-> temp]

\* deactivate without its try/catch.
deactivateNoCatch(workspaceOpen, status, temp, failing) ==
    IF ~workspaceOpen
    THEN Deactivated(FALSE, status, temp)
    ELSE IF status.t # "absent" /\ failing = "status"
    THEN Deactivated(TRUE, status, temp)
    ELSE IF temp.t # "absent" /\ failing = "temp"
    THEN Deactivated(TRUE, StatusAbsent, temp)
    ELSE Deactivated(FALSE, StatusAbsent, StatusAbsent)

\* deactivate(): with a workspace folder, the status file is unlinked if it
\* exists, then the .tmp sibling if it exists; the catch swallows whatever
\* is thrown on the way.
deactivate(workspaceOpen, status, temp, failing) ==
    IF ~workspaceOpen
    THEN Deactivated(FALSE, status, temp)
    ELSE IF status.t # "absent" /\ failing = "status"
    THEN Deactivated(FALSE, status, temp)
    ELSE IF temp.t # "absent" /\ failing = "temp"
    THEN Deactivated(FALSE, StatusAbsent, temp)
    ELSE Deactivated(FALSE, StatusAbsent, StatusAbsent)

(* ------------------------------ the state ------------------------------ *)

VARIABLES
    env,        \* the process: extensionPath, platform, HOME, USERPROFILE
    hooksFile,  \* <home>/.cursor/hooks.json
    onDisk,     \* the hook wrapper scripts that exist on disk
    last,       \* the last operation: its inputs' state and what it returned
    statusFile, \* per workspace: .cursor/cursor-bird-status.json
    tempFile,   \* per workspace: .cursor/cursor-bird-status.json.tmp
    tracker,    \* per workspace: AgentTracker.activeAgentCount
    webviews,   \* per workspace: the WebviewManager's panel and isPaused
    autoShow,   \* the setting cursorBird.behavior.autoShow
    lastEvent,  \* the last event of the agent tracking
    agents,     \* the agents of Workspace1 and their running hook scripts
    passes,     \* per window in a pass of setupHooksFileGlobal: the pass
    activation, \* activate(): how far it is and the commands registered
    scripts,    \* the content of each generated file of <extension>/dist/hook
    game        \* the panel of a window: best score, messages, the game

vars == <<env, hooksFile, onDisk, last, statusFile, tempFile, tracker, webviews,
          autoShow, lastEvent, agents, passes, activation, scripts, game>>

hookVars == <<env, hooksFile, onDisk, last>>
trackingVars == <<statusFile, tempFile, tracker, webviews, autoShow, lastEvent>>
sessionVars == <<passes, activation, scripts, game>>

Environment(extPath, platform, home, userprofile) ==
    [extensionPath |-> extPath, platform |-> platform,
     HOME |-> home, USERPROFILE |-> userprofile]

\* The processes considered: an installed release on a POSIX system (with
\* both variables set), a checkout on a POSIX system, a release on Windows
\* (USERPROFILE only), and a process with neither variable.
Environments ==
    { Environment(ReleaseExtensionPath, "posix", "/home/u", "C:/Users/u"),
      Environment(MockExtensionPath, "posix", "/home/u", ""),
      Environment(ReleaseExtensionPath, "win32", "", "C:/Users/u"),
      Environment(ReleaseExtensionPath, "posix", "", "") }

HomeDir == getHomeDirectory(env.HOME, env.USERPROFILE)
Expected == ExpectedPaths(env.extensionPath, env.platform)

SeqsUpTo(S, n) == UNION { [1..k -> S] : k \in 0..n }

\* The two hook arrays of a hooks.json the extension has not written: at
\* most MaxEntries entries in all, and either array may be missing.
InitialArrays(expected) ==
    { <<b, s>> \in ({NoArray} \cup { Array(q) : q \in SeqsUpTo(StartEntries(expected), MaxEntries) })
                   \X ({NoArray} \cup { Array(q) : q \in SeqsUpTo(StopEntries(expected), MaxEntries) }) :
        Len(b.items) + Len(s.items) <= MaxEntries }

\* What surrounds the two arrays: the file as the extension lays it out, or
\* a file another tool wrote, with a key and a hook kind of its own (one of
\* its afterFileEdit entries names cursor-bird) and its own layout.
Frames ==
    { [fmt |-> "indent2", rest |-> "version:1", afterFileEdit |-> NoArray],
      [fmt |-> "compact", rest |-> "version:1,owner:other",
       afterFileEdit |-> Array(<<Entry(OtherStartCommand, ""),
                                 OwnEntry(OldStartCommand)>>)] }

InitialFiles(expected) ==
    { AbsentFile, GarbageFile,
      JsonFile("compact", JsonNull), JsonFile("compact", JsonArray),
      JsonFile("compact", JsonObject(NoHooks, "version:1")) }
    \cup { JsonFile(f.fmt, JsonObject(Hooks(a[1], a[2], f.afterFileEdit), f.rest)) :
             a \in InitialArrays(expected), f \in Frames }

\* last before any operation, and after a change made by the environment.
NoCheck == HooksNotFound
NoOperation ==
    [op |-> "none", pre |-> AbsentFile, success |-> FALSE, modified |-> FALSE,
     wrote |-> FALSE, threw |-> FALSE, again |-> FALSE, check |-> NoCheck,
     removedCount |-> 0, hasNodeJs |-> TRUE, writable |-> TRUE,
     message |-> <<>>, shown |-> NoNotification,
     workspace |-> "", failing |-> "none",
     scriptsOk |-> TRUE, checked |-> FALSE, setupCalled |-> FALSE,
     written |-> {}, preScripts |-> [n \in ScriptNames |-> NoContent],
     preStatus |-> [t |-> "absent", activeCount |-> 0],
     preTemp |-> [t |-> "absent", activeCount |-> 0]]

\* No agent has run and nothing is shown.
NumAgents == 2
Agents == 1..NumAgents
Agent(phase, pc, count, fd) == [phase |-> phase, pc |-> pc, count |-> count, fd |-> fd]
IdleAgent == Agent("idle", "none", 0, "none")
\* An event of the agent tracking: a hook script run (with the workspace
\* roots of its stdin JSON, its current directory, its delta and the status
\* file it found), a read of the tracker in a workspace's window (with the
\* count the tracker held), or a command in a workspace's window.
Event(op, workspace, roots, cwd, delta, file, count) ==
    [op |-> op, workspace |-> workspace, roots |-> roots, cwd |-> cwd,
     delta |-> delta, file |-> file, count |-> count]
NoEvent == Event("none", "", <<>>, "", 0, StatusAbsent, 0)

NoTracking ==
    /\ statusFile = [w \in Workspaces |-> StatusAbsent]
    /\ tempFile = [w \in Workspaces |-> StatusAbsent]
    /\ tracker = [w \in Workspaces |-> 0]
    /\ webviews = [w \in Workspaces |-> NoPanel]
    /\ autoShow = TRUE
    /\ lastEvent = NoEvent

NoAgents == agents = [a \in Agents |-> IdleAgent]

\* The windows whose extension hosts share <home>/.cursor/hooks.json, and a
\* window's pass of setupHooksFileGlobal: where it is, and the local
\* variables hooks and modified once it has read.
Windows == {"window1", "window2"}
Pass(pc, hooks, modified) == [pc |-> pc, hooks |-> hooks, modified |-> modified]
\* No window is in a pass.
NoPasses == <<>>

\* What activate() does after it has built its objects, in the order of the
\* code, and the same in the opposite order.
ActivateStepsSetupFirst == <<"setupHooksIfNeeded", "registerCommands">>
ActivateSteps == <<"registerCommands", "setupHooksIfNeeded">>

\* The commands of the extension.
ExtensionCommands ==
    {"cursorBird.toggle", "cursorBird.start", "cursorBird.stop",
     "cursorBird.setupHooks", "cursorBird.resetBestScore",
     "cursorBird.openSettings", "cursorBird.toggleAutoShow"}

\* activate(): the step it takes next, whether a workspace folder is open,
\* and the commands registered so far.
Activation(next, workspaceOpen, commands) ==
    [next |-> next, workspaceOpen |-> workspaceOpen, commands |-> commands]
NotActivated == Activation(1, TRUE, {})

\* No generated file is on disk.
NoScripts == [n \in ScriptNames |-> NoContent]

\* No panel is considered.
NoGame == <<>>

NoSessions ==
    /\ passes = NoPasses
    /\ activation = NotActivated
    /\ scripts = NoScripts
    /\ game = NoGame

Init ==
    /\ env \in Environments
    /\ hooksFile \in InitialFiles(Expected)
    /\ HomeDir = "" => hooksFile = AbsentFile
    /\ onDisk \in SUBSET {Expected.startScript, Expected.stopScript}
    /\ last = NoOperation
    /\ NoTracking
    /\ NoAgents
    /\ NoSessions

(* ------------------------------- operations ---------------------------- *)

\* A checkHooksExist that provisions the scripts it is about to look for.
CheckHooksExistProvisions ==
    \E r \in { checkHooksExist(getOrCreateHookScriptPath(env.extensionPath, env.platform),
                               env.platform, HomeDir, hooksFile, onDisk) } :
        /\ last' = [NoOperation EXCEPT !.op = "checkHooksExist", !.pre = hooksFile,
                                       !.threw = r.threw, !.check = r.result]
        /\ onDisk' = ensureHookScript(onDisk,
                                      getOrCreateHookScriptPath(env.extensionPath,
                                                                env.platform),
                                      env.platform)
        /\ UNCHANGED <<env, hooksFile, trackingVars, agents, sessionVars>>

\* hookManager.checkHooksExist(scriptPath)
CheckHooksExist ==
    \E r \in { checkHooksExist(getOrCreateHookScriptPath(env.extensionPath, env.platform),
                               env.platform, HomeDir, hooksFile, onDisk) } :
        /\ last' = [NoOperation EXCEPT !.op = "checkHooksExist", !.pre = hooksFile,
                                       !.threw = r.threw, !.check = r.result]
        /\ UNCHANGED <<env, hooksFile, onDisk, trackingVars, agents, sessionVars>>

\* The command cursorBird.setupHooks: hookManager.setupHooks(), with what
\* the Node.js probe answers and (when it is asked) whether <home>/.cursor
\* accepts writes, then handleHookSetupResult(setupResult, hookManager,
\* 'command').
SetupHooks ==
    \E hasNodeJs \in BOOLEAN :
    \E writable \in (IF hasNodeJs THEN BOOLEAN ELSE {TRUE}) :
    \E r \in { setupHooks(hasNodeJs, writable, env.extensionPath, env.platform,
                          HomeDir, hooksFile, onDisk) } :
        /\ hooksFile' = r.file
        /\ onDisk' = r.onDisk
        /\ last' = [NoOperation EXCEPT !.op = "setupHooks", !.pre = hooksFile,
                                       !.success = r.success,
                                       !.modified = r.modified,
                                       !.wrote = r.wrote,
                                       !.again = (last.op = "setupHooks"
                                                  /\ last.success),
                                       !.hasNodeJs = hasNodeJs,
                                       !.writable = writable,
                                       !.message = r.message,
                                       !.shown = handleHookSetupResult(r, "command")]
        /\ UNCHANGED <<env, trackingVars, agents, sessionVars>>

\* The uninstall script, step 2.
Uninstall ==
    \E r \in { removeGlobalHooks(HomeDir, hooksFile) } :
        /\ hooksFile' = r.file
        /\ last' = [NoOperation EXCEPT !.op = "uninstall", !.pre = hooksFile,
                                       !.threw = r.threw, !.wrote = r.wrote,
                                       !.removedCount = r.removedCount]
        /\ UNCHANGED <<env, onDisk, trackingVars, agents, sessionVars>>

\* The host removes a script of the extension directory (upgrade, uninstall).
ScriptRemoved ==
    \E p \in onDisk :
        /\ onDisk' = onDisk \ {p}
        /\ last' = NoOperation
        /\ UNCHANGED <<env, hooksFile, trackingVars, agents, sessionVars>>

Next == CheckHooksExist \/ SetupHooks \/ Uninstall \/ ScriptRemoved

Spec == Init /\ [][Next]_vars

(* ----------------------- install, then uninstall ----------------------- *)

\* The uninstall script runs after a setupHooks; last keeps what setupHooks
\* found and returned, for comparison with what the uninstall leaves.
UninstallAfterSetup ==
    /\ last.op = "setupHooks"
    /\ \E r \in { removeGlobalHooks(HomeDir, hooksFile) } :
          /\ hooksFile' = r.file
          /\ last' = [last EXCEPT !.op = "setupHooks, uninstall",
                                  !.threw = r.threw,
                                  !.removedCount = r.removedCount]
    /\ UNCHANGED <<env, onDisk, trackingVars, agents, sessionVars>>

NextRoundTrip == SetupHooks \/ UninstallAfterSetup

SpecRoundTrip == Init /\ [][NextRoundTrip]_vars

(* ------------------------------ agent tracking ------------------------ *)

\* The status file a window finds when it opens: none, one that release
\* 1.0.0 left with a zero count, one left with active agents, or one that
\* is not JSON.
InitialStatus == {StatusAbsent, StatusJson(0), StatusJson(1), StatusGarbage}

\* The window of each workspace after activate: the tracker has done its
\* initial read and called the callback.
InitTracking ==
    /\ env = Environment(ReleaseExtensionPath, "posix", "/home/u", "C:/Users/u")
    /\ hooksFile = AbsentFile
    /\ onDisk = {}
    /\ last = NoOperation
    /\ statusFile \in [Workspaces -> InitialStatus]
    /\ tempFile = [w \in Workspaces |-> StatusAbsent]
    /\ autoShow \in BOOLEAN
    /\ tracker = [w \in Workspaces |-> readStatusFile(statusFile[w], 0).activeAgentCount]
    /\ webviews = [w \in Workspaces |->
                     onChange(readStatusFile(statusFile[w], 0).onChange, autoShow, NoPanel)]
    /\ lastEvent = NoEvent
    /\ NoAgents
    /\ NoSessions

\* What Cursor gives a hook script: the workspace roots on stdin and the
\* current directory.  The roots name a workspace while the script runs
\* elsewhere; a multi-root workspace; no roots; no roots and the home
\* directory as current directory.
HookInputs ==
    { [roots |-> <<Workspace1>>, cwd |-> Workspace2],
      [roots |-> <<Workspace2, Workspace1>>, cwd |-> Workspace1],
      [roots |-> <<>>, cwd |-> Workspace1],
      [roots |-> <<>>, cwd |-> HomeDir] }

\* One run of the hook script generated for delta.  A start is taken while
\* the count is below MaxCount.
HookEvent(delta) ==
    \E in \in HookInputs :
    \E workspacePath \in { WorkspacePath(in.roots, in.cwd) } :
        IF isInWorkspace(workspacePath, HomeDir)
        THEN \E r \in { runHookScript(statusFile[workspacePath],
                                      tempFile[workspacePath], delta) } :
                /\ delta > 0 => ReadData(statusFile[workspacePath]) < MaxCount
                /\ statusFile' = [statusFile EXCEPT ![workspacePath] = r.status]
                /\ tempFile' = [tempFile EXCEPT ![workspacePath] = r.temp]
                /\ lastEvent' = Event("hook", "", in.roots, in.cwd, delta,
                                      statusFile[workspacePath], 0)
                /\ UNCHANGED <<hookVars, sessionVars, tracker, webviews, autoShow, agents>>
        ELSE /\ lastEvent' = Event("hook", "", in.roots, in.cwd, delta, StatusAbsent, 0)
             /\ UNCHANGED <<hookVars, sessionVars, statusFile, tempFile, tracker, webviews,
                            autoShow, agents>>

\* The beforeSubmitPrompt hook and the stop hook.
StartHook == HookEvent(1)
StopHook == HookEvent(-1)

\* this.readStatusFile() in the window of workspace w, then the callback.
TrackerReads(w, op) ==
    \E r \in { readStatusFile(statusFile[w], tracker[w]) } :
        /\ tracker' = [tracker EXCEPT ![w] = r.activeAgentCount]
        /\ webviews' = [webviews EXCEPT ![w] = onChange(r.onChange, autoShow, webviews[w])]
        /\ lastEvent' = Event(op, w, <<>>, "", 0, StatusAbsent, tracker[w])
        /\ UNCHANGED <<hookVars, sessionVars, statusFile, tempFile, autoShow, agents>>

\* onDidCreate / onDidChange of the file system watcher: the hook script that
\* just ran created or changed the status file of w.
WatcherEvent(w) ==
    /\ lastEvent.op = "hook"
    /\ WorkspacePath(lastEvent.roots, lastEvent.cwd) = w
    /\ statusFile[w].t # "absent"
    /\ TrackerReads(w, "watcher")

\* The polling timer.
Poll(w) == TrackerReads(w, "poll")

\* A command or panel event in the window of w.
WebviewEvent(w, webview) ==
    /\ webviews' = [webviews EXCEPT ![w] = webview]
    /\ lastEvent' = Event("command", w, <<>>, "", 0, StatusAbsent, 0)
    /\ UNCHANGED <<hookVars, sessionVars, statusFile, tempFile, tracker, autoShow, agents>>

\* cursorBird.start, cursorBird.stop, cursorBird.toggle
CommandStart(w) == WebviewEvent(w, startRunning(webviews[w]))
CommandStop(w) == WebviewEvent(w, stopAndDispose(webviews[w]))
CommandToggle(w) == WebviewEvent(w, toggle(webviews[w]))

\* The game reports that the flap key started it.
TabPressedToStart(w) ==
    /\ webviews[w].panel /\ webviews[w].isPaused
    /\ WebviewEvent(w, Webview(TRUE, FALSE))

\* The user closes the panel: onDidDispose.
PanelDisposed(w) ==
    /\ webviews[w].panel
    /\ WebviewEvent(w, NoPanel)

\* cursorBird.toggleAutoShow
ToggleAutoShow ==
    /\ autoShow' = ~autoShow
    /\ lastEvent' = Event("command", "", <<>>, "", 0, StatusAbsent, 0)
    /\ UNCHANGED <<hookVars, sessionVars, statusFile, tempFile, tracker, webviews, agents>>

NextTracking ==
    \/ StartHook
    \/ StopHook
    \/ \E w \in Workspaces : WatcherEvent(w)
    \/ \E w \in Workspaces : Poll(w)
    \/ \E w \in Workspaces : CommandStart(w)
    \/ \E w \in Workspaces : CommandStop(w)
    \/ \E w \in Workspaces : CommandToggle(w)
    \/ \E w \in Workspaces : TabPressedToStart(w)
    \/ \E w \in Workspaces : PanelDisposed(w)
    \/ ToggleAutoShow

SpecTracking == InitTracking /\ [][NextTracking]_vars

\* The polling timer of every window keeps firing.
SpecTrackingFair == SpecTracking /\ \A w \in Workspaces : WF_vars(Poll(w))

(* --------------------------- a damaged status file --------------------- *)

\* The status file of w is damaged from outside (a crash in the middle of a
\* write, another program): it exists and is not JSON any more.
StatusCorrupted(w) ==
    /\ statusFile[w].t = "json"
    /\ statusFile' = [statusFile EXCEPT ![w] = StatusGarbage]
    /\ lastEvent' = Event("corrupted", w, <<>>, "", 0, statusFile[w], tracker[w])
    /\ UNCHANGED <<hookVars, sessionVars, tempFile, tracker, webviews, autoShow, agents>>

NextCorruption == NextTracking \/ \E w \in Workspaces : StatusCorrupted(w)

SpecCorruption == InitTracking /\ [][NextCorruption]_vars

(* ---------------------------- a status file left ----------------------- *)

\* A status file whose lastUpdate lies further back than
\* behavior.staleThreshold.  The other status files are within it and
\* carry no lastUpdate.
StatusStale(n) ==
    [t |-> "json", activeCount |-> n, lastUpdate |-> "older than staleThreshold"]

\* Time passes with no hook script run for w (the agent was killed, the
\* editor crashed): the positive count of its status file becomes older
\* than the threshold.  The next hook script run writes a new lastUpdate.
StatusAges(w) ==
    /\ statusFile[w].t = "json" /\ statusFile[w].activeCount > 0
    /\ statusFile[w] = StatusJson(statusFile[w].activeCount)
    /\ statusFile' = [statusFile EXCEPT ![w] = StatusStale(statusFile[w].activeCount)]
    /\ lastEvent' = Event("aged", w, <<>>, "", 0, statusFile[w], tracker[w])
    /\ UNCHANGED <<hookVars, sessionVars, tempFile, tracker, webviews, autoShow, agents>>

NextStale == NextTracking \/ \E w \in Workspaces : StatusAges(w)

SpecStale == InitTracking /\ [][NextStale]_vars

(* ------------------------ concurrent hook scripts ---------------------- *)

\* Agents of one workspace, each running its start hook script and later
\* its stop hook script as a process of its own.  A script is a sequence of
\* file system calls; the calls of different scripts interleave.  An open
\* file descriptor (fd) names the file it was opened on: still the .tmp
\* sibling ("temp"), renamed to the status file meanwhile ("status"), or
\* without a name ("orphan").
RaceWorkspace == Workspace1

InitRace ==
    /\ env = Environment(ReleaseExtensionPath, "posix", "/home/u", "C:/Users/u")
    /\ hooksFile = AbsentFile
    /\ onDisk = {}
    /\ last = NoOperation
    /\ NoTracking
    /\ NoAgents
    /\ NoSessions

\* The delta of the script an agent is running.
DeltaOf(agent) == IF agent.phase = "starting" THEN 1 ELSE -1

\* The script has its new count: a zero count goes on to the unlink, any
\* other to the write of the .tmp sibling.
AfterCount(agent, count) ==
    IF count = 0 THEN [agent EXCEPT !.pc = "existsBeforeUnlink", !.count = 0]
                 ELSE [agent EXCEPT !.pc = "open", !.count = count]

\* The script ends (also through its catch and process.exit(0)).
Exit(agent) ==
    Agent(IF agent.phase = "starting" THEN "running" ELSE "done", "none", 0, "none")

\* What a rename of the .tmp sibling over the status file, or an unlink of
\* the status file, does to the descriptor another process holds.
AfterRename(fd) ==
    IF fd = "temp" THEN "status" ELSE IF fd = "status" THEN "orphan" ELSE fd
AfterUnlink(fd) == IF fd = "status" THEN "orphan" ELSE fd

\* Cursor runs the beforeSubmitPrompt hook of an agent.
AgentStart(a) ==
    /\ agents[a].phase = "idle"
    /\ agents' = [agents EXCEPT ![a] = Agent("starting", "exists", 0, "none")]
    /\ UNCHANGED <<hookVars, sessionVars, trackingVars>>

\* Cursor runs the stop hook of an agent whose start hook has ended.
AgentStop(a) ==
    /\ agents[a].phase = "running"
    /\ agents' = [agents EXCEPT ![a] = Agent("stopping", "exists", 0, "none")]
    /\ UNCHANGED <<hookVars, sessionVars, trackingVars>>

\* if (fs.existsSync(statusFile)): without the file the default data is used.
ScriptExistsSync(a) ==
    /\ agents[a].pc = "exists"
    /\ agents' = [agents EXCEPT ![a] =
                    IF statusFile[RaceWorkspace].t = "absent"
                    THEN AfterCount(@, NewCount(ReadData(StatusAbsent), DeltaOf(@)))
                    ELSE [@ EXCEPT !.pc = "read"]]
    /\ UNCHANGED <<hookVars, sessionVars, trackingVars>>

\* readFileSync and JSON.parse (a failure of either leaves the default
\* data), then the new count.
ScriptReadFile(a) ==
    /\ agents[a].pc = "read"
    /\ agents' = [agents EXCEPT ![a] =
                    AfterCount(@, NewCount(ReadData(statusFile[RaceWorkspace]),
                                           DeltaOf(@)))]
    /\ UNCHANGED <<hookVars, sessionVars, trackingVars>>

\* if (fs.existsSync(statusFile)) before the unlink.
ScriptExistsBeforeUnlink(a) ==
    /\ agents[a].pc = "existsBeforeUnlink"
    /\ agents' = [agents EXCEPT ![a] =
                    IF statusFile[RaceWorkspace].t = "absent" THEN Exit(@)
                    ELSE [@ EXCEPT !.pc = "unlink"]]
    /\ UNCHANGED <<hookVars, sessionVars, trackingVars>>

\* fs.unlinkSync(statusFile); it throws when the file is gone meanwhile.
ScriptUnlink(a) ==
    /\ agents[a].pc = "unlink"
    /\ IF statusFile[RaceWorkspace].t = "absent"
       THEN /\ agents' = [agents EXCEPT ![a] = Exit(@)]
            /\ UNCHANGED statusFile
       ELSE /\ agents' = [b \in Agents |->
                            IF b = a THEN Exit(agents[a])
                            ELSE [agents[b] EXCEPT !.fd = AfterUnlink(@)]]
            /\ statusFile' = [statusFile EXCEPT ![RaceWorkspace] = StatusAbsent]
    /\ UNCHANGED <<hookVars, sessionVars, tempFile, tracker, webviews, autoShow, lastEvent>>

\* fs.writeFileSync(tempFile, ...), its open: the file is created or cut to
\* nothing.
ScriptOpenTemp(a) ==
    /\ agents[a].pc = "open"
    /\ agents' = [agents EXCEPT ![a] = [@ EXCEPT !.pc = "write", !.fd = "temp"]]
    /\ tempFile' = [tempFile EXCEPT ![RaceWorkspace] = StatusEmpty]
    /\ UNCHANGED <<hookVars, sessionVars, statusFile, tracker, webviews, autoShow, lastEvent>>

\* fs.writeFileSync(tempFile, ...), its write and close: the text goes to the
\* file the descriptor is on.
ScriptWriteTemp(a) ==
    /\ agents[a].pc = "write"
    /\ agents' = [agents EXCEPT ![a] = [@ EXCEPT !.pc = "rename", !.fd = "none"]]
    /\ tempFile' = IF agents[a].fd = "temp"
                   THEN [tempFile EXCEPT ![RaceWorkspace] = StatusJson(agents[a].count)]
                   ELSE tempFile
    /\ statusFile' = IF agents[a].fd = "status"
                     THEN [statusFile EXCEPT ![RaceWorkspace] = StatusJson(agents[a].count)]
                     ELSE statusFile
    /\ UNCHANGED <<hookVars, sessionVars, tracker, webviews, autoShow, lastEvent>>

\* fs.renameSync(tempFile, statusFile); it throws when the .tmp sibling is
\* gone meanwhile.
ScriptRename(a) ==
    /\ agents[a].pc = "rename"
    /\ IF tempFile[RaceWorkspace].t = "absent"
       THEN /\ agents' = [agents EXCEPT ![a] = Exit(@)]
            /\ UNCHANGED <<statusFile, tempFile>>
       ELSE /\ agents' = [b \in Agents |->
                            IF b = a THEN Exit(agents[a])
                            ELSE [agents[b] EXCEPT !.fd = AfterRename(@)]]
            /\ statusFile' = [statusFile EXCEPT ![RaceWorkspace] = tempFile[RaceWorkspace]]
            /\ tempFile' = [tempFile EXCEPT ![RaceWorkspace] = StatusAbsent]
    /\ UNCHANGED <<hookVars, sessionVars, tracker, webviews, autoShow, lastEvent>>

NextRace ==
    \/ \E a \in Agents : AgentStart(a)
    \/ \E a \in Agents : AgentStop(a)
    \/ \E a \in Agents : ScriptExistsSync(a)
    \/ \E a \in Agents : ScriptReadFile(a)
    \/ \E a \in Agents : ScriptExistsBeforeUnlink(a)
    \/ \E a \in Agents : ScriptUnlink(a)
    \/ \E a \in Agents : ScriptOpenTemp(a)
    \/ \E a \in Agents : ScriptWriteTemp(a)
    \/ \E a \in Agents : ScriptRename(a)

SpecRace == InitRace /\ [][NextRace]_vars

(* ------------------------------ deactivation --------------------------- *)

\* What an unlink of the .tmp sibling does to the descriptor a script holds.
AfterUnlinkTemp(fd) == IF fd = "temp" THEN "orphan" ELSE fd

\* The extension host calls deactivate(), once, while hook scripts of the
\* workspace may be running: in the window of the workspace or in a window
\* without a folder, with or without an unlink that fails.
Deactivate ==
    /\ last.op # "deactivate"
    /\ \E workspaceOpen \in BOOLEAN :
       \E failing \in {"none", "status", "temp"} :
       \E r \in { deactivate(workspaceOpen, statusFile[RaceWorkspace],
                             tempFile[RaceWorkspace], failing) } :
          /\ statusFile' = [statusFile EXCEPT ![RaceWorkspace] = r.status]
          /\ tempFile' = [tempFile EXCEPT ![RaceWorkspace] = r.temp]
          /\ agents' = [a \in Agents |->
                          [agents[a] EXCEPT !.fd =
                              LET fd == IF r.status # statusFile[RaceWorkspace]
                                        THEN AfterUnlink(@) ELSE @
                              IN  IF r.temp # tempFile[RaceWorkspace]
                                  THEN AfterUnlinkTemp(fd) ELSE fd]]
          /\ last' = [NoOperation EXCEPT !.op = "deactivate", !.threw = r.threw,
                                         !.workspace = IF workspaceOpen THEN RaceWorkspace
                                                                        ELSE "",
                                         !.failing = failing,
                                         !.preStatus = statusFile[RaceWorkspace],
                                         !.preTemp = tempFile[RaceWorkspace]]
          /\ UNCHANGED <<env, hooksFile, onDisk, tracker, webviews, autoShow, lastEvent,
                         sessionVars>>

NextDeactivate == NextRace \/ Deactivate

SpecDeactivate == InitRace /\ [][NextDeactivate]_vars

(* ------------------------------- activation ---------------------------- *)

\* activate() is called in a window with or without a workspace folder.
InitActivation ==
    /\ env \in Environments
    /\ hooksFile \in InitialFiles(Expected)
    /\ HomeDir = "" => hooksFile = AbsentFile
    /\ onDisk \in SUBSET {Expected.startScript, Expected.stopScript}
    /\ last = NoOperation
    /\ NoTracking
    /\ NoAgents
    /\ passes = NoPasses
    /\ activation \in { Activation(1, workspaceOpen, {}) : workspaceOpen \in BOOLEAN }
    /\ scripts = NoScripts
    /\ game = NoGame

\* The step activate() takes next; "return" when it has none.
NextStep ==
    IF activation.next <= Len(ActivateSteps) THEN ActivateSteps[activation.next]
                                             ELSE "return"

\* context.subscriptions.push(vscode.commands.registerCommand(...), ...).
\* Without a workspace folder the commands are registered with handlers
\* that only warn, and activate returns.
ActivateRegister ==
    /\ NextStep = "registerCommands"
    /\ activation' = [activation EXCEPT
                         !.commands = ExtensionCommands,
                         !.next = IF activation.workspaceOpen THEN @ + 1
                                  ELSE Len(ActivateSteps) + 1]
    /\ UNCHANGED <<hookVars, trackingVars, agents, passes, scripts, game>>

\* await hookManager.setupHooksIfNeeded(), then handleHookSetupResult(
\* setupResult, hookManager, 'activate', context).  The answers of the
\* environment are drawn where they are asked for.
ActivateSetupHooks ==
    /\ NextStep = "setupHooksIfNeeded"
    /\ \E scriptsOk \in BOOLEAN :
       \E hasNodeJs \in (IF scriptsOk THEN BOOLEAN ELSE {TRUE}) :
       \E writable \in (IF scriptsOk /\ hasNodeJs THEN BOOLEAN ELSE {TRUE}) :
       \E r \in { setupHooksIfNeeded(scriptsOk, hasNodeJs, writable, env.extensionPath,
                                     env.platform, HomeDir, hooksFile, onDisk) } :
          /\ r.setupCalled \/ (hasNodeJs /\ writable)
          /\ hooksFile' = r.setupResult.file
          /\ onDisk' = r.setupResult.onDisk
          /\ last' = [NoOperation EXCEPT
                         !.op = "activate", !.pre = hooksFile,
                         !.success = r.setupResult.success,
                         !.modified = r.setupResult.modified,
                         !.wrote = r.setupResult.wrote,
                         !.check = r.checkResult,
                         !.scriptsOk = scriptsOk,
                         !.checked = r.checked,
                         !.setupCalled = r.setupCalled,
                         !.hasNodeJs = hasNodeJs,
                         !.writable = writable,
                         !.message = r.setupResult.message,
                         !.shown = handleHookSetupResult(r.setupResult, "activate")]
          /\ activation' = [activation EXCEPT !.next = @ + 1]
    /\ UNCHANGED <<env, trackingVars, agents, passes, scripts, game>>

\* The user runs the command cursorBird.setupHooks of a window with a
\* workspace folder, once it is registered.
CommandSetupHooks ==
    /\ "cursorBird.setupHooks" \in activation.commands
    /\ activation.workspaceOpen
    /\ SetupHooks

NextActivation == ActivateRegister \/ ActivateSetupHooks \/ CommandSetupHooks

SpecActivation == InitActivation /\ [][NextActivation]_vars

(* --------------------------- script provisioning ----------------------- *)

\* What dist/hook can hold of a file when the extension starts: nothing,
\* what this release generates (for either platform: a directory synced
\* between machines), or what release 1.0.0 generated.
InitialContents(name) ==
    {NoContent} \cup { Generated(name, p) : p \in Platforms }
                \cup { GeneratedBefore(name, p) : p \in Platforms }

\* The wrapper scripts that exist, as paths.
WrappersOnDisk(files) ==
    { p \in {Expected.startScript, Expected.stopScript} :
        files[IF p = Expected.startScript THEN "startScript" ELSE "stopScript"]
            # NoContent }

InitScripts ==
    /\ env \in Environments
    /\ hooksFile = AbsentFile
    /\ last = NoOperation
    /\ NoTracking
    /\ NoAgents
    /\ passes = NoPasses
    /\ activation = NotActivated
    /\ scripts \in { f \in [ScriptNames -> UNION { InitialContents(n) : n \in ScriptNames }] :
                        \A n \in ScriptNames : f[n] \in InitialContents(n) }
    /\ onDisk = WrappersOnDisk(scripts)
    /\ game = NoGame

\* this.ensureHookScript(hookScriptPath)
EnsureHookScript ==
    \E r \in { ensureHookScriptContents(scripts, env.platform) } :
        /\ scripts' = r.files
        /\ onDisk' = WrappersOnDisk(r.files)
        /\ last' = [NoOperation EXCEPT !.op = "ensureHookScript",
                                       !.again = (last.op = "ensureHookScript"),
                                       !.written = r.written,
                                       !.preScripts = scripts]
        /\ UNCHANGED <<env, hooksFile, trackingVars, agents, passes, activation, game>>

\* A generated file is removed or replaced from outside (an upgrade, a
\* cleanup of the extension directory).
ScriptReplaced ==
    \E n \in ScriptNames :
    \E content \in InitialContents(n) \ {scripts[n]} :
        /\ scripts' = [scripts EXCEPT ![n] = content]
        /\ onDisk' = WrappersOnDisk(scripts')
        /\ last' = NoOperation
        /\ UNCHANGED <<env, hooksFile, trackingVars, agents, passes, activation, game>>

NextScripts == EnsureHookScript \/ ScriptReplaced

SpecScripts == InitScripts /\ [][NextScripts]_vars

(* ----------------------- concurrent reconciliation --------------------- *)

\* Two windows activate against the same home directory: each extension
\* host runs setupHooksFileGlobal with the same expected paths.  Within a
\* host the pass is not interrupted; between hosts the read and the write
\* of a pass interleave with those of the other.  last.pre keeps the file
\* the windows found.
InitReconcile ==
    /\ env \in { e \in Environments : getHomeDirectory(e.HOME, e.USERPROFILE) # "" }
    /\ hooksFile \in InitialFiles(Expected)
    /\ onDisk = {Expected.startScript, Expected.stopScript}
    /\ last = [NoOperation EXCEPT !.pre = hooksFile]
    /\ NoTracking
    /\ NoAgents
    /\ passes = [w \in Windows |-> Pass("read", JsonNull, FALSE)]
    /\ activation = NotActivated
    /\ scripts = NoScripts
    /\ game = NoGame

\* The read block of setupHooksFileGlobal and updateHooks on what was read.
\* A TypeError ends the pass; an unmodified document ends it without a
\* write.
PassRead(w) ==
    /\ passes[w].pc = "read"
    /\ \E updated \in { updateHooks(LoadHooks(hooksFile), EXTENSION_NAME,
                                     Expected.startScript, Expected.stopScript) } :
          passes' = [passes EXCEPT ![w] =
                        IF updated.threw THEN Pass("threw", updated.hooks, FALSE)
                        ELSE IF updated.modified THEN Pass("write", updated.hooks, TRUE)
                        ELSE Pass("done", updated.hooks, FALSE)]
    /\ UNCHANGED <<hookVars, trackingVars, agents, activation, scripts, game>>

\* if (modified) fs.writeFileSync(hooksFilePath, JSON.stringify(hooks, null, 2))
PassWrite(w) ==
    /\ passes[w].pc = "write"
    /\ hooksFile' = WriteIfModified(hooksFile, passes[w].hooks, passes[w].modified).file
    /\ passes' = [passes EXCEPT ![w] = Pass("done", @.hooks, @.modified)]
    /\ UNCHANGED <<env, onDisk, last, trackingVars, agents, activation, scripts, game>>

\* Every pass has ended.
PassesEnded == \A w \in Windows : passes[w].pc \in {"done", "threw"}

\* One further setupHooksFileGlobal, after the passes.
FurtherPass ==
    /\ PassesEnded
    /\ last.op = "none"
    /\ \E r \in { setupHooksFileGlobal(hooksFile,
                                        getOrCreateHookScriptPath(env.extensionPath,
                                                                  env.platform),
                                        env.platform, TRUE) } :
          /\ hooksFile' = r.file
          /\ last' = [last EXCEPT !.op = "setupHooksFileGlobal", !.threw = r.threw,
                                  !.modified = r.modified, !.wrote = r.wrote]
    /\ UNCHANGED <<env, onDisk, trackingVars, agents, sessionVars>>

NextReconcile ==
    \/ \E w \in Windows : PassRead(w)
    \/ \E w \in Windows : PassWrite(w)
    \/ FurtherPass

SpecReconcile == InitReconcile /\ [][NextReconcile]_vars

(* ------------------------- the panel and the game ---------------------- *)

notGame == <<hookVars, trackingVars, agents, passes, activation, scripts>>

\* The constructor of WebviewManager has loaded bestScore from storage.
InitGame ==
    /\ env = Environment(ReleaseExtensionPath, "posix", "/home/u", "C:/Users/u")
    /\ hooksFile = AbsentFile
    /\ onDisk = {}
    /\ last = NoOperation
    /\ NoTracking
    /\ NoAgents
    /\ passes = NoPasses
    /\ activation = NotActivated
    /\ scripts = NoScripts
    /\ game \in { Panel(n, n, FALSE, FALSE, <<>>, <<>>, NewGame) : n \in 0..MaxScore }

\* this.postMessage(message), on a panel that createPanel() makes when
\* there is none.
Post(msg) ==
    /\ Len(game.toWebview) < MaxInFlight
    /\ game' = IF game.panel
               THEN [game EXCEPT !.toWebview = Append(@, msg)]
               ELSE [game EXCEPT !.panel = TRUE, !.toWebview = <<msg>>]
    /\ UNCHANGED notGame

\* showPaused() and startRunning()
ShowPaused == Post(Message("pause", 0))
StartRunning == Post(Message("start", 0))

\* loadFullHtml() has read the template: the page of the game replaces the
\* bootstrap page and its script runs; setBestScore and the configuration
\* are posted.  What was posted to the bootstrap page reaches the game or
\* is lost.
LoadFullHtml ==
    /\ game.panel /\ ~game.loaded
    /\ \E kept \in {game.toWebview, <<>>} :
          game' = [game EXCEPT !.loaded = TRUE, !.page = NewGame,
                               !.toWebview = kept \o <<Message("setBestScore", game.bestScore),
                                                       Message("updateConfig", 0)>>]
    /\ UNCHANGED notGame

\* The page receives the message posted first.
DeliverToGame ==
    /\ game.loaded /\ game.toWebview # <<>>
    /\ game' = [game EXCEPT !.page = onMessage(@, Head(game.toWebview)),
                            !.toWebview = Tail(@)]
    /\ UNCHANGED notGame

\* The extension receives the message the game posted first.
DeliverToExtension ==
    /\ game.panel /\ game.toExtension # <<>>
    /\ game' = [onDidReceiveMessage(game, Head(game.toExtension))
                    EXCEPT !.toExtension = Tail(@)]
    /\ UNCHANGED notGame

\* The user presses the flap key in the panel.
Keydown ==
    /\ game.loaded
    /\ game' = [game EXCEPT !.page = keydown(@)]
    /\ UNCHANGED notGame

\* A frame in which the bird passes a pipe.
FrameScores ==
    /\ game.loaded /\ game.page.running
    /\ game.page.score < MaxScore
    /\ Len(game.toExtension) < MaxInFlight
    /\ \E r \in { Scored(game.page) } :
          game' = [game EXCEPT !.page = r.game, !.toExtension = @ \o r.posted]
    /\ UNCHANGED notGame

\* A frame in which the bird hits something.
FrameCollides ==
    /\ game.loaded /\ game.page.running
    /\ game' = [game EXCEPT !.page = Collided(@)]
    /\ UNCHANGED notGame

\* The panel is disposed (closed by the user, stopAndDispose()).
GameDisposed ==
    /\ game.panel
    /\ game' = Panel(game.storage, game.bestScore, FALSE, FALSE, <<>>, <<>>, NewGame)
    /\ UNCHANGED notGame

\* cursorBird.resetBestScore, confirmed with Reset.
ResetBestScore ==
    /\ Len(game.toWebview) < MaxInFlight
    /\ game' = [game EXCEPT !.bestScore = 0, !.storage = 0,
                            !.toWebview = IF game.panel
                                          THEN Append(@, Message("resetBestScore", 0))
                                          ELSE @]
    /\ UNCHANGED notGame

\* A setting of cursorBird changes: sendConfigToGame().
ConfigChanged ==
    /\ game.panel /\ Len(game.toWebview) < MaxInFlight
    /\ game' = [game EXCEPT !.toWebview = Append(@, Message("updateConfig", 0))]
    /\ UNCHANGED notGame

NextGame ==
    \/ ShowPaused
    \/ StartRunning
    \/ LoadFullHtml
    \/ DeliverToGame
    \/ DeliverToExtension
    \/ Keydown
    \/ FrameScores
    \/ FrameCollides
    \/ GameDisposed
    \/ ResetBestScore
    \/ ConfigChanged

SpecGame == InitGame /\ [][NextGame]_vars

(* ------------------------ vocabulary of the properties ----------------- *)

Kinds == {"beforeSubmitPrompt", "stop"}

\* The expected command of a kind in the current environment.
ExpectedOf(kind) ==
    IF kind = "beforeSubmitPrompt" THEN Expected.startScript ELSE Expected.stopScript

\* An entry is owned when its command contains the marker.
Owned(h) == \E i \in 1..Len(h.command) : h.command[i] = "cursor-bird"

OwnedIn(items) == SelectSeq(items, Owned)
ForeignIn(items) == SelectSeq(items, LAMBDA h : ~Owned(h))
CountCommand(items, c) == Cardinality({ i \in 1..Len(items) : items[i].command = c })

\* The entries of a kind in a file; none when the file holds no object or
\* the array is missing.
KindItems(file, kind) ==
    IF file.t = "json" /\ file.v.k = "object" /\ file.v.hooks.present
    THEN Items(file.v.hooks[kind]) ELSE <<>>

IsObjectFile(file) == file.t = "json" /\ file.v.k = "object"

\* setupHooks has just returned success / checkHooksExist has just returned.
SetupDone == last.op = "setupHooks" /\ last.success
CheckDone == last.op = "checkHooksExist"
UninstallDone == last.op = "uninstall"

\* The three inputs C1 names: no file, unparsable text, a JSON object.
NamedInput(file) == file.t \in {"absent", "garbage"} \/ IsObjectFile(file)

(* --------------------------------- C1 ---------------------------------- *)

\* C1: when setupHooks succeeds twice in a row on the same expected paths
\* (the first run having started from no file, unparsable text or a JSON
\* object), the second run returns modified = false, writes nothing and
\* leaves the file exactly as the first run left it.
C1_SecondRunChangesNothing ==
    (SetupDone /\ last.again /\ NamedInput(last.pre))
        => (~last.modified /\ ~last.wrote /\ hooksFile = last.pre)

\* A second successful run on a file that holds the expected entries next to
\* another tool's entry.
C1_Witness ==
    /\ SetupDone /\ last.again /\ IsObjectFile(last.pre)
    /\ \A k \in Kinds : CountCommand(KindItems(last.pre, k), ExpectedOf(k)) = 1
    /\ Len(ForeignIn(KindItems(last.pre, "beforeSubmitPrompt"))) > 0
    /\ Includes(Expected.startScript, EXTENSION_NAME)

(* --------------------------------- C2 ---------------------------------- *)

\* C2: after a successful setupHooks each of beforeSubmitPrompt and stop
\* holds exactly one owned entry, and its command is the expected path.
\* Stated for an expected path that contains the marker and a file that held
\* a JSON object, no file or unparsable text.
C2_ExactlyOneOwnedPerKind ==
    (SetupDone /\ NamedInput(last.pre)
        /\ \A k \in Kinds : Includes(ExpectedOf(k), EXTENSION_NAME))
        => \A k \in Kinds :
              /\ Len(OwnedIn(KindItems(hooksFile, k))) = 1
              /\ OwnedIn(KindItems(hooksFile, k))[1].command = ExpectedOf(k)

(* --------------------------------- C3 ---------------------------------- *)

\* C3: a successful setupHooks keeps every entry of beforeSubmitPrompt and
\* stop whose command does not contain the marker, unchanged and in the same
\* relative order; the only entry without the marker that can appear is the
\* one setupHooks appends when the expected path itself lacks the marker.
C3_ForeignEntriesKept ==
    (SetupDone /\ IsObjectFile(last.pre))
        => \A k \in Kinds :
              LET before == ForeignIn(KindItems(last.pre, k))
                  after == ForeignIn(KindItems(hooksFile, k))
              IN  \/ after = before
                  \/ /\ after = Append(before, OwnEntry(ExpectedOf(k)))
                     /\ ~Includes(ExpectedOf(k), EXTENSION_NAME)

\* A run that removed a stale owned entry from a kind that also holds two
\* entries of other tools.
C3_Witness ==
    /\ SetupDone /\ last.wrote /\ IsObjectFile(last.pre)
    /\ \E k \in Kinds :
          /\ Len(ForeignIn(KindItems(last.pre, k))) = 2
          /\ Len(OwnedIn(KindItems(last.pre, k))) = 1
          /\ OwnedIn(KindItems(last.pre, k))[1].command # ExpectedOf(k)
          /\ ~Owned(KindItems(last.pre, k)[Len(KindItems(last.pre, k))])

(* --------------------------------- C4 ---------------------------------- *)

\* C4: a successful setupHooks on a file holding a JSON object leaves the
\* keys next to "hooks" and the hook kinds other than beforeSubmitPrompt and
\* stop exactly as they were read.
C4_OtherKeysAndKindsKept ==
    (SetupDone /\ IsObjectFile(last.pre))
        => /\ IsObjectFile(hooksFile)
           /\ hooksFile.v.rest = last.pre.v.rest
           /\ hooksFile.v.hooks.afterFileEdit = last.pre.v.hooks.afterFileEdit

\* A run that rewrote a file with a key and a hook kind of another tool.
C4_Witness ==
    /\ SetupDone /\ last.wrote /\ IsObjectFile(last.pre)
    /\ last.pre.v.rest = "version:1,owner:other"
    /\ last.pre.v.hooks.afterFileEdit.present
    /\ hooksFile # last.pre

(* --------------------------------- C5 ---------------------------------- *)

\* A kind of the file read by the last run held several owned entries, all
\* with a command other than the expected one.
SeveralStaleOwned(k) ==
    LET owned == OwnedIn(KindItems(last.pre, k))
    IN  /\ Len(owned) >= 2
        /\ \A i \in 1..Len(owned) : owned[i].command # ExpectedOf(k)

C6_ForeignFirstOwnedLast ==
    \A k \in Kinds :
        LET after == KindItems(hooksFile, k)
        IN  (SetupDone /\ IsObjectFile(last.pre) /\ Len(OwnedIn(after)) = 1)
                => /\ Owned(after[Len(after)])
                   /\ SubSeq(after, 1, Len(after) - 1)
                        = ForeignIn(KindItems(last.pre, k))

\* The entries of a kind that setupHooks has no reason to drop.
Retained(items, k) ==
    SelectSeq(items, LAMBDA h : ~Owned(h) \/ h.command = ExpectedOf(k))

\* C6 amended: after a successful setupHooks a kind holds the entries it
\* held before, without the owned entries whose command is not the expected
\* path and otherwise in their original positions relative to each other;
\* an entry for the expected path is appended after them only when no entry
\* had that command.
C6_RetainedInPlaceAddedLast ==
    \A k \in Kinds :
        (SetupDone /\ IsObjectFile(last.pre))
            => LET before == KindItems(last.pre, k)
                   after == KindItems(hooksFile, k)
               IN  after = IF CountCommand(before, ExpectedOf(k)) = 0
                           THEN Append(Retained(before, k), OwnEntry(ExpectedOf(k)))
                           ELSE Retained(before, k)

\* A run that kept the expected owned entry in front of a foreign entry and
\* dropped a stale owned entry of the same kind.
C6_Witness ==
    /\ SetupDone /\ IsObjectFile(last.pre) /\ last.wrote
    /\ \E k \in Kinds :
          LET before == KindItems(last.pre, k)
              after == KindItems(hooksFile, k)
          IN  /\ Len(before) = 3 /\ Len(after) = 2
              /\ Owned(after[1]) /\ ~Owned(after[2])

(* --------------------------------- C7 ---------------------------------- *)

C7_WitnessValid ==
    CheckDone /\ last.check.exists /\ ~last.check.needsUpdate

(* --------------------------------- C8 ---------------------------------- *)

\* C8: checkHooksExist answers exists = false when the file is absent or
\* neither kind holds an owned entry, and answers exists = true with
\* needsUpdate = true when exactly one of the two kinds holds an owned entry.
C8_NoneAndPartial ==
    CheckDone =>
        LET hasStart == Len(OwnedIn(KindItems(hooksFile, "beforeSubmitPrompt"))) > 0
            hasStop == Len(OwnedIn(KindItems(hooksFile, "stop"))) > 0
        IN  /\ (hooksFile.t = "absent" \/ (~hasStart /\ ~hasStop))
                  => ~last.check.exists
            /\ (hasStart # hasStop)
                  => (last.check.exists /\ last.check.needsUpdate)

\* A check of a file with an owned entry under beforeSubmitPrompt only, next
\* to a foreign entry under stop.
C8_Witness ==
    /\ CheckDone
    /\ Len(OwnedIn(KindItems(hooksFile, "beforeSubmitPrompt"))) > 0
    /\ Len(OwnedIn(KindItems(hooksFile, "stop"))) = 0
    /\ Len(KindItems(hooksFile, "stop")) > 0
    /\ last.check.exists

(* --------------------------------- C9 ---------------------------------- *)

\* C9: on a hooks file that is not JSON, checkHooksExist returns
\* exists = false without throwing, and the uninstall step removes nothing,
\* leaves the file unwritten and does not throw.
C9_MalformedTolerated ==
    /\ (CheckDone /\ hooksFile = GarbageFile)
          => (~last.threw /\ ~last.check.exists)
    /\ (UninstallDone /\ last.pre = GarbageFile)
          => (~last.threw /\ last.removedCount = 0 /\ ~last.wrote
                /\ hooksFile = GarbageFile)

\* The uninstall step has run on a file that is not JSON.
C9_Witness == UninstallDone /\ last.pre = GarbageFile

\* checkHooksExist has run on a file that is not JSON.
C9_WitnessCheck == CheckDone /\ hooksFile = GarbageFile

(* --------------------------------- C10 --------------------------------- *)

\* The document setupHooksFileGlobal works on needs no change: both arrays
\* are there, each holds an entry with the expected command, and no owned
\* entry has another command.
Settled(file) ==
    /\ IsObjectFile(file) /\ file.v.hooks.present
    /\ \A k \in Kinds :
          /\ file.v.hooks[k].present
          /\ CountCommand(file.v.hooks[k].items, ExpectedOf(k)) >= 1
          /\ \A i \in 1..Len(file.v.hooks[k].items) :
                Owned(file.v.hooks[k].items[i])
                    => file.v.hooks[k].items[i].command = ExpectedOf(k)

\* C10: a successful setupHooks writes the hooks file exactly when the
\* document it read needs a change, the returned modified flag is true
\* exactly when it wrote, an unwritten file is untouched, and a file that
\* held an object holds a different object after the write.
C10_WritesIffChanged ==
    SetupDone =>
        /\ last.wrote <=> ~Settled(last.pre)
        /\ last.modified <=> last.wrote
        /\ ~last.wrote => hooksFile = last.pre
        /\ (last.wrote /\ IsObjectFile(last.pre)) => hooksFile.v # last.pre.v

\* A successful run that wrote nothing although the file is laid out
\* differently from what JSON.stringify would produce.
C10_Witness ==
    SetupDone /\ ~last.wrote /\ ~last.modified /\ last.pre.fmt = "compact"

\* A successful run that wrote.
C10_WitnessWrote == SetupDone /\ last.wrote /\ last.modified

(* --------------------------------- C11 --------------------------------- *)

\* A run of the setupHooks command that reached the write of hooks.json (or
\* the creation of its directory) while <home>/.cursor refused writes: Node.js
\* was found, the home directory is known, the file did not hold null, and
\* the document was not yet in its reconciled form.
WriteFailed ==
    /\ last.op = "setupHooks" /\ last.hasNodeJs /\ ~last.writable
    /\ HomeDir # ""
    /\ ~(last.pre.t = "json" /\ last.pre.v.k = "null")
    /\ ~Settled(last.pre)

AllKinds == Kinds \cup {"afterFileEdit"}

\* C12: after the uninstall script's hooks cleanup no entry whose command
\* contains the marker remains in any hook-kind array of the document, the
\* kinds other than beforeSubmitPrompt and stop included.
C12_NoOwnedEntryAnywhere ==
    UninstallDone => \A k \in AllKinds : OwnedIn(KindItems(hooksFile, k)) = <<>>

\* C13: the hooks cleanup of the uninstall script leaves, in every kind, the
\* entries without the marker as they were and in their order, leaves the
\* other top-level fields as they were, changes nothing but hooks.json, and
\* when the document holds no owned entry it does not write the file.
C13_ForeignAndFieldsKept ==
    UninstallDone =>
        /\ \A k \in AllKinds :
              ForeignIn(KindItems(hooksFile, k)) = ForeignIn(KindItems(last.pre, k))
        /\ IsObjectFile(last.pre) =>
              /\ IsObjectFile(hooksFile)
              /\ hooksFile.v.rest = last.pre.v.rest
              /\ hooksFile.v.hooks.present = last.pre.v.hooks.present
              /\ \A k \in AllKinds :
                    hooksFile.v.hooks[k].present = last.pre.v.hooks[k].present
        /\ ~IsObjectFile(last.pre) => hooksFile = last.pre
        /\ (\A k \in AllKinds : OwnedIn(KindItems(last.pre, k)) = <<>>)
              => ~last.wrote /\ hooksFile = last.pre

\* A cleanup that wrote a file of another tool: owned entries removed from a
\* kind that also held an entry with a command of another extension and an
\* entry without a command.
C13_Witness ==
    /\ UninstallDone /\ last.wrote
    /\ last.pre.v.rest = "version:1,owner:other"
    /\ \E k \in Kinds :
          /\ Len(OwnedIn(KindItems(last.pre, k))) > 0
          /\ \E i, j \in 1..Len(KindItems(last.pre, k)) :
                /\ KindItems(last.pre, k)[i].command = <<>>
                /\ ~Owned(KindItems(last.pre, k)[j])
                /\ KindItems(last.pre, k)[j].command # <<>>

(* ------------------------- C14, C15, C18, C19, C20 --------------------- *)

\* The workspace a hook event is for: the first workspace root it names, or
\* without roots the directory it runs in.
EventWorkspace(e) == IF e.roots # <<>> THEN Head(e.roots) ELSE e.cwd

\* The last event was a hook script run for workspace w.
HookDoneFor(w) ==
    lastEvent.op = "hook" /\ EventWorkspace(lastEvent) = w /\ w \in Workspaces

\* The last event was a read of the tracker of w.
ReadDoneFor(w) == lastEvent.op \in {"watcher", "poll"} /\ lastEvent.workspace = w

\* The count a status file stands for.
CountIn(content) == IF content.t = "json" THEN content.activeCount ELSE 0

\* C14: a start event adds 1 to the count of its workspace and a stop event
\* subtracts 1 (a stop at zero leaves zero); when the result is 0 the status
\* file does not exist afterwards, also when the stop found no status file,
\* and a file with activeCount 0 is never what the event leaves.
C14_ZeroCountDeletesFile ==
    \A w \in Workspaces :
        HookDoneFor(w) =>
            LET old == CountIn(lastEvent.file)
                new == IF lastEvent.delta > 0 THEN old + 1
                       ELSE IF old > 0 THEN old - 1 ELSE 0
            IN  /\ new = 0 => statusFile[w] = StatusAbsent
                /\ new > 0 => statusFile[w] = StatusJson(new)
                /\ statusFile[w] # StatusJson(0)

\* A stop event that found no status file.
C14_Witness ==
    /\ HookDoneFor(Workspace1) /\ lastEvent.delta = -1
    /\ lastEvent.file = StatusAbsent
    /\ statusFile[Workspace1] = StatusAbsent

\* C15: whatever start and stop events have run, in whatever order, a status
\* file that holds a count holds an integer that is not negative.
C15_CountNeverNegative ==
    \A w \in Workspaces :
        statusFile[w].t = "json" =>
            statusFile[w].activeCount \in Int /\ statusFile[w].activeCount >= 0

\* A stop event that found the count at zero already.
C15_Witness ==
    /\ HookDoneFor(Workspace2) /\ lastEvent.delta = -1
    /\ lastEvent.file = StatusJson(0)

\* C18: when a read of the tracker takes its count from zero to a positive
\* value, with autoShow on the panel exists and is paused afterwards, and
\* with autoShow off the panel is as it was (none is created).
C18_ShownPausedIfAutoShow ==
    [][\A w \in Workspaces :
          (/\ lastEvent'.op \in {"watcher", "poll"} /\ lastEvent'.workspace = w
           /\ tracker[w] = 0 /\ tracker'[w] > 0)
          => IF autoShow THEN webviews'[w] = [panel |-> TRUE, isPaused |-> TRUE]
                         ELSE webviews'[w] = webviews[w]]_vars

\* The tracker has just seen the count leave zero, with autoShow on.
C18_Witness ==
    \E w \in Workspaces :
        /\ ReadDoneFor(w) /\ lastEvent.count = 0 /\ tracker[w] > 0
        /\ autoShow /\ webviews[w].panel /\ webviews[w].isPaused

\* The status file of w is deleted or holds a zero count.
Gone(w) == statusFile[w].t = "absent" \/ statusFile[w] = StatusJson(0)

C20_OtherWorkspacesUntouched ==
    [][lastEvent'.op = "hook" =>
          \A w \in Workspaces :
              w # EventWorkspace(lastEvent') =>
                  /\ statusFile'[w] = statusFile[w]
                  /\ tempFile'[w] = tempFile[w]
                  /\ tracker'[w] = tracker[w]
                  /\ webviews'[w] = webviews[w]]_vars

\* An event for Workspace1, run from the directory of Workspace2, changed
\* the status file of Workspace1 while Workspace2 has an active agent.
C20_Witness ==
    /\ lastEvent.op = "hook"
    /\ lastEvent.roots = <<Workspace1>> /\ lastEvent.cwd = Workspace2
    /\ statusFile[Workspace1] # lastEvent.file
    /\ statusFile[Workspace2] = StatusJson(1) /\ tracker[Workspace2] = 1

(* ------------------------------- C16, C17 ------------------------------ *)

\* No hook script is running in the workspace.
Quiet == \A a \in Agents : agents[a].pc = "none"

\* The agents that have started and not yet stopped.
RunningAgents == { a \in Agents : agents[a].phase \in {"running", "stopping"} }

\* C16: at every step the status file is absent or holds a complete
\* document (the one before an update or the one after it), never a part of
\* one, and when no update is under way no .tmp sibling is there.
C16_NeverPartialNoTempLeft ==
    /\ statusFile[RaceWorkspace].t \in {"absent", "json"}
    /\ Quiet => tempFile[RaceWorkspace].t = "absent"

\* C17: with the hook scripts of several agents of one workspace running
\* concurrently, whenever no script is under way the count of the status file
\* is the number of agents that have started and not yet stopped, so the file
\* is gone only when no agent is running.
C17_CountIsRunningAgents ==
    Quiet =>
        /\ CountIn(statusFile[RaceWorkspace]) = Cardinality(RunningAgents)
        /\ statusFile[RaceWorkspace].t = "absent" => RunningAgents = {}

(* --------------------------------- C21 --------------------------------- *)

\* The Node.js probe of a run of the setupHooks command found no runtime.
NodeMissing == last.op = "setupHooks" /\ ~last.hasNodeJs

\* C21: when Node.js is not available, setupHooks stops before it writes: it
\* returns (it does not throw) success = false with the message that Node.js
\* is required, nothing was written and the hooks file is as it was, and the
\* user is shown that message.
C21_NoNodeNoWrite ==
    NodeMissing =>
        /\ ~last.success /\ ~last.threw
        /\ last.message = <<NodeMissingMessage>>
        /\ ~last.wrote /\ ~last.modified
        /\ hooksFile = last.pre
        /\ last.shown = Notification("error", <<"x ", NodeMissingMessage>>)

\* Node.js was missing when the hooks file held a document that a run with
\* Node.js would have rewritten.
C21_Witness ==
    /\ NodeMissing /\ HomeDir # "" /\ IsObjectFile(last.pre) /\ ~Settled(last.pre)
    /\ \E k \in Kinds : Len(OwnedIn(KindItems(last.pre, k))) > 0

(* --------------------------------- C22 --------------------------------- *)

\* C22: deactivate never throws, whether an unlink fails or no workspace is
\* open; when a workspace is open and no unlink fails, neither the status
\* file nor its .tmp sibling exists when deactivate returns; without a
\* workspace both files are as they were.
C22_DeactivateCleansNeverThrows ==
    [][ last'.op = "deactivate" /\ last.op # "deactivate" =>
          /\ ~last'.threw
          /\ (last'.workspace # "" /\ last'.failing = "none") =>
                \A w \in {last'.workspace} :
                    statusFile'[w].t = "absent" /\ tempFile'[w].t = "absent"
          /\ last'.workspace = "" =>
                statusFile' = statusFile /\ tempFile' = tempFile ]_vars

\* deactivate has just removed a status file and a .tmp sibling that both
\* existed.
C22_Witness ==
    /\ last.op = "deactivate" /\ last.workspace # "" /\ last.failing = "none"
    /\ last.preStatus.t # "absent" /\ last.preTemp.t # "absent"
    /\ statusFile[last.workspace].t = "absent"
    /\ tempFile[last.workspace].t = "absent"

\* deactivate has just returned although the unlink of an existing file
\* failed.
C22_WitnessFailure ==
    /\ last.op = "deactivate" /\ last.workspace # "" /\ ~last.threw
    /\ last.failing = "temp" /\ last.preTemp.t # "absent"
    /\ tempFile[last.workspace] = last.preTemp

(* --------------------------------- C23 --------------------------------- *)

\* The file holds what the windows' passes are to leave of the file they
\* found: in each kind the entries of other tools, unchanged and in order,
\* and an entry with the expected command; the entries of the other kinds as
\* they were.
Reconciled(file, found) ==
    /\ \A k \in Kinds :
          /\ CountCommand(KindItems(file, k), ExpectedOf(k)) >= 1
          /\ \/ ForeignIn(KindItems(file, k)) = ForeignIn(KindItems(found, k))
             \/ /\ ForeignIn(KindItems(file, k))
                      = Append(ForeignIn(KindItems(found, k)), OwnEntry(ExpectedOf(k)))
                /\ ~Includes(ExpectedOf(k), EXTENSION_NAME)
    /\ KindItems(file, "afterFileEdit") = KindItems(found, "afterFileEdit")

\* C23: when the two concurrent passes over the shared hooks file have
\* ended, whatever the file held before and however their reads and writes
\* interleaved, the file holds every foreign entry it held before and the
\* expected owned entries, and one further pass returns modified = false.
C23_ConcurrentPassesConverge ==
    PassesEnded =>
        /\ Reconciled(hooksFile, last.pre)
        /\ last.op = "setupHooksFileGlobal"
              => (~last.threw /\ ~last.modified /\ ~last.wrote)

\* The same for the files a single pass can work on (no file, text that is
\* not JSON, a JSON object): there the interleaving loses nothing.
C23_ConvergeOnUsableFile ==
    (PassesEnded /\ NamedInput(last.pre)) =>
        /\ Reconciled(hooksFile, last.pre)
        /\ last.op = "setupHooksFileGlobal"
              => (~last.threw /\ ~last.modified /\ ~last.wrote)

\* Both windows read before either wrote, both wrote, and a further pass
\* has run on a file that held stale owned entries next to foreign ones.
C23_WitnessBothWrote ==
    /\ PassesEnded /\ last.op = "setupHooksFileGlobal"
    /\ \A w \in Windows : passes[w].modified
    /\ IsObjectFile(last.pre)
    /\ \E k \in Kinds : /\ Len(ForeignIn(KindItems(last.pre, k))) > 0
                        /\ Len(OwnedIn(KindItems(last.pre, k))) > 0

(* ------------------------------ C24, C25 ------------------------------- *)

\* activate() has run setupHooksIfNeeded and handleHookSetupResult.
ActivateDone == last.op = "activate"

\* What checkHooksExist reported to the activation, if it was called.
ReportedValid == last.checked /\ last.check.exists /\ ~last.check.needsUpdate
ReportedNotValid == last.checked /\ ~(last.check.exists /\ ~last.check.needsUpdate)

\* C24: during activation setupHooks is called exactly when checkHooksExist
\* reported hooks that are missing, partial or stale; when it reported valid
\* hooks, the activation leaves hooks.json as it was and shows no
\* notification.
C24_SetupIffNotValid ==
    ActivateDone =>
        /\ last.setupCalled <=> ReportedNotValid
        /\ ReportedValid =>
              /\ hooksFile = last.pre /\ ~last.wrote /\ ~last.modified
              /\ last.success
              /\ last.shown = NoNotification

\* An activation that found valid hooks next to an entry of another tool, in
\* a file not laid out as the extension writes it.
C24_Witness ==
    /\ ActivateDone /\ ReportedValid /\ ~last.setupCalled
    /\ last.pre.fmt = "compact"
    /\ Len(ForeignIn(KindItems(last.pre, "stop"))) > 0

\* An activation that found stale hooks, called setupHooks and rewrote the
\* file.
C24_WitnessStale ==
    /\ ActivateDone /\ last.check.exists /\ last.check.needsUpdate
    /\ last.setupCalled /\ last.wrote
    /\ last.shown.kind = "information"

\* setupHooksIfNeeded is what activate() does next / is behind it.
SetupPending == activation.workspaceOpen /\ NextStep = "setupHooksIfNeeded"
StepTaken(step) ==
    \E i \in 1..Len(ActivateSteps) : i < activation.next /\ ActivateSteps[i] = step

\* C25: in a window with a workspace, from the moment activate() turns to
\* the hook check and setup, and ever after (also when the setup failed),
\* every command of the extension is registered and the setupHooks command
\* can be run.
C25_CommandsBeforeSetup ==
    (activation.workspaceOpen
        /\ (SetupPending \/ StepTaken("setupHooksIfNeeded")))
        => /\ ExtensionCommands \subseteq activation.commands
           /\ ENABLED CommandSetupHooks

\* The setupHooks command has run while the setup of the activation was
\* still to come.
C25_Witness ==
    /\ SetupPending /\ last.op = "setupHooks"
    /\ ExtensionCommands \subseteq activation.commands

\* The setup of the activation has failed and the commands are registered.
C25_WitnessFailed ==
    /\ ActivateDone /\ ~last.success /\ activation.workspaceOpen
    /\ "cursorBird.setupHooks" \in activation.commands

(* --------------------------------- C26 --------------------------------- *)

\* C26: checkHooksExist only reads: whatever hooks.json holds (nothing, text
\* that is not JSON, any JSON value), a call leaves the hooks file, the
\* scripts on disk and the status files exactly as they were.
C26_CheckOnlyReads ==
    [][ last'.op = "checkHooksExist" =>
          /\ hooksFile' = hooksFile
          /\ onDisk' = onDisk
          /\ statusFile' = statusFile /\ tempFile' = tempFile ]_vars

\* checkHooksExist has found hooks that need an update because a script is
\* not on disk, and the script is still not there.
C26_Witness ==
    /\ CheckDone /\ last.check.exists /\ last.check.needsUpdate
    /\ \A k \in Kinds : CountCommand(KindItems(hooksFile, k), ExpectedOf(k)) = 1
    /\ onDisk # {Expected.startScript, Expected.stopScript}

\* checkHooksExist has run without a hooks file and there is still none.
C26_WitnessAbsent == CheckDone /\ hooksFile = AbsentFile /\ HomeDir # "" /\ onDisk = {}

(* --------------------------------- C27 --------------------------------- *)

\* ensureHookScript has just run.
EnsureDone == last.op = "ensureHookScript"

C27_WitnessAgain == EnsureDone /\ last.again /\ last.written = {}

(* --------------------------------- C28 --------------------------------- *)

\* C28: the home directory is HOME when it is set, otherwise USERPROFILE,
\* otherwise there is none; without one, checkHooksExist reports that no
\* hooks exist, and setupHooks fails (when Node.js is there, with the
\* message that the home directory was not found) and no hooks file is
\* written.
C28_HomeOrProfileOrNothing ==
    /\ env.HOME # "" => HomeDir = env.HOME
    /\ (env.HOME = "" /\ env.USERPROFILE # "") => HomeDir = env.USERPROFILE
    /\ (env.HOME = "" /\ env.USERPROFILE = "") =>
          /\ HomeDir = ""
          /\ CheckDone => (~last.check.exists /\ ~last.threw)
          /\ last.op = "setupHooks" =>
                /\ ~last.success /\ ~last.wrote /\ ~last.modified
                /\ last.hasNodeJs => last.message = <<NoHomeMessage>>
          /\ hooksFile = AbsentFile

\* setupHooks has failed for want of a home directory, after it put the
\* scripts on disk.
C28_Witness ==
    /\ env.HOME = "" /\ env.USERPROFILE = ""
    /\ last.op = "setupHooks" /\ last.hasNodeJs /\ ~last.success
    /\ onDisk = {Expected.startScript, Expected.stopScript}

\* checkHooksExist has run without a home directory; and with both
\* variables set.
C28_WitnessCheck == CheckDone /\ env.HOME = "" /\ env.USERPROFILE = ""
C28_WitnessBoth ==
    /\ env.HOME # "" /\ env.USERPROFILE # "" /\ SetupDone /\ last.wrote

(* --------------------------------- C29 --------------------------------- *)

\* A run of setupHooks that nothing outside hooks.json keeps from its end:
\* Node.js is there, the home directory is known and accepts writes.
SetupUnhindered ==
    last.op = "setupHooks" /\ last.hasNodeJs /\ last.writable /\ HomeDir # ""

\* The file holds an entry with the expected command in each kind.
HoldsExpected(file) ==
    \A k \in Kinds : CountCommand(KindItems(file, k), ExpectedOf(k)) >= 1

\* C29: whatever hooks.json holds (nothing, text that is not JSON, JSON that
\* is not an object, an object without hooks, hooks without the two kinds),
\* setupHooks completes and the file then holds the expected entry in each
\* kind; content that is not a JSON object is treated as the empty document.
C29_AnyContentReconciled ==
    SetupUnhindered =>
        /\ last.success
        /\ HoldsExpected(hooksFile)
        /\ ~IsObjectFile(last.pre) =>
              hooksFile.v = updateHooks(FreshDocument, EXTENSION_NAME,
                                        Expected.startScript, Expected.stopScript).hooks

\* The same for the contents setupHooksFileGlobal does handle: no file, text
\* that is not JSON, and every JSON object.
C29_UsableContentReconciled ==
    (SetupUnhindered /\ NamedInput(last.pre)) =>
        /\ last.success
        /\ HoldsExpected(hooksFile)
        /\ ~IsObjectFile(last.pre) =>
              hooksFile.v = updateHooks(FreshDocument, EXTENSION_NAME,
                                        Expected.startScript, Expected.stopScript).hooks

\* setupHooks has run on a file that holds null / an array.
C29_WitnessNull ==
    SetupUnhindered /\ last.pre = JsonFile("compact", JsonNull) /\ ~last.success
C29_WitnessArray ==
    /\ SetupUnhindered /\ last.pre = JsonFile("compact", JsonArray)
    /\ last.success /\ last.wrote /\ hooksFile.v = JsonArray

(* --------------------------------- C30 --------------------------------- *)

\* C30: the callback of the tracker shows the game paused only when the
\* count goes from zero to a positive value; a read that takes the count
\* from one positive value to another leaves the panel and the game as
\* they are.
C30_PausedOnlyOnFirstDetection ==
    [][ \A w \in Workspaces :
          (tracker[w] > 0 /\ tracker'[w] > 0 /\ tracker'[w] # tracker[w])
              => webviews'[w] = webviews[w] ]_vars

\* A read has taken the count from one positive value to another while the
\* game was running, and the game is paused.
C30_WitnessPausedAgain ==
    \E w \in Workspaces :
        /\ ReadDoneFor(w) /\ lastEvent.count > 0 /\ tracker[w] > lastEvent.count
        /\ webviews[w] = Webview(TRUE, TRUE) /\ autoShow

\* The first detection shows the game paused.
C30_FirstDetectionShows ==
    [][ \A w \in Workspaces :
          (tracker[w] = 0 /\ tracker'[w] > 0 /\ autoShow)
              => webviews'[w] = Webview(TRUE, TRUE) ]_vars

(* --------------------------------- C31 --------------------------------- *)

\* C31: a status file that exists and is not JSON counts as activeCount 0:
\* a hook script that finds it leaves what its delta makes of 0 (the file
\* with count 1 after a start, no file after a stop), and a tracker that has
\* read it holds no active agents.
C31_InvalidStatusIsZero ==
    \A w \in Workspaces :
        /\ (HookDoneFor(w) /\ lastEvent.file = StatusGarbage) =>
              statusFile[w] = IF lastEvent.delta > 0 THEN StatusJson(1) ELSE StatusAbsent
        /\ (ReadDoneFor(w) /\ statusFile[w] = StatusGarbage) => tracker[w] = 0

\* The part of it that concerns the hook script, and the first read of a
\* tracker.
C31_ScriptAppliesDeltaToZero ==
    \A w \in Workspaces :
        /\ (HookDoneFor(w) /\ lastEvent.file = StatusGarbage) =>
              statusFile[w] = IF lastEvent.delta > 0 THEN StatusJson(1) ELSE StatusAbsent
        /\ (ReadDoneFor(w) /\ statusFile[w] = StatusGarbage /\ lastEvent.count = 0)
              => tracker[w] = 0

\* A tracker that held a positive count has read a file that is not JSON
\* and still holds the count, with the panel open.
C31_WitnessCountKept ==
    \E w \in Workspaces :
        /\ ReadDoneFor(w) /\ statusFile[w] = StatusGarbage
        /\ tracker[w] > 0 /\ webviews[w].panel

\* A start hook has run on a file that is not JSON.
C31_WitnessScript ==
    \E w \in Workspaces :
        /\ HookDoneFor(w) /\ lastEvent.file = StatusGarbage /\ lastEvent.delta > 0
        /\ statusFile[w] = StatusJson(1)

(* --------------------------------- C32 --------------------------------- *)

\* checkHooksExist has just reported the hooks as present and current.
CheckedValid == last.op = "checkHooksExist" /\ last.check.exists /\ ~last.check.needsUpdate

\* The entries of a hook kind that carry the marker and are not the
\* expected entry.
StaleOwned(arr, script) ==
    { i \in 1..Len(Items(arr)) :
        IsCursorBird(Items(arr)[i], EXTENSION_NAME) /\ Items(arr)[i].command # script }

\* C32: when checkHooksExist reports the hooks of a file as valid, a
\* setupHooks that runs next on that same file with the same expected paths
\* changes nothing and returns modified = false.
C32_ValidMeansNoChange ==
    [][ (CheckedValid /\ last'.op = "setupHooks" /\ last'.success)
            => (~last'.modified /\ ~last'.wrote /\ hooksFile' = hooksFile) ]_vars

\* The same for the files in which every entry with the marker is the
\* expected one.
C32_ValidAndNoStaleMeansNoChange ==
    [][ (/\ CheckedValid /\ last'.op = "setupHooks" /\ last'.success
         /\ StaleOwned(hooksFile.v.hooks.beforeSubmitPrompt, Expected.startScript) = {}
         /\ StaleOwned(hooksFile.v.hooks.stop, Expected.stopScript) = {})
            => (~last'.modified /\ ~last'.wrote /\ hooksFile' = hooksFile) ]_vars

\* A file reported valid that holds an entry of an earlier install behind
\* the expected one.
C32_WitnessValidWithStale ==
    /\ CheckedValid
    /\ StaleOwned(hooksFile.v.hooks.beforeSubmitPrompt, Expected.startScript) # {}

\* setupHooks has run on a file it left alone.
C32_WitnessNoChange ==
    /\ last.op = "setupHooks" /\ last.success /\ ~last.modified
    /\ last.pre = hooksFile /\ existsSync(hooksFile)

(* --------------------------------- C33 --------------------------------- *)

\* setupHooks has just succeeded and both scripts are on disk.
SetupSucceeded ==
    /\ last.op = "setupHooks" /\ last.success
    /\ {Expected.startScript, Expected.stopScript} \subseteq onDisk

\* activate() reaches setupHooksIfNeeded, which finds the scripts in place,
\* reports the hooks valid and does not call setupHooks.
ActivationFindsValid ==
    /\ last'.op = "activate"
    /\ ~last'.setupCalled
    /\ last'.scriptsOk => (last'.checked /\ last'.check.exists /\ ~last'.check.needsUpdate)

\* C33: after setupHooks has succeeded, with both scripts on disk, the
\* checkHooksExist of the activation that follows reports the hooks valid
\* and the activation does not call setupHooks.
C33_SetupThenActivationValid ==
    [][ (SetupSucceeded /\ last'.op = "activate") => ActivationFindsValid ]_vars

\* The same when the extension path contains the marker and the file
\* setupHooks found was not a JSON array.
C33_MarkedPathUsableFile ==
    [][ (/\ SetupSucceeded /\ last'.op = "activate"
         /\ Includes(env.extensionPath, EXTENSION_NAME)
         /\ hooksFile.v.k = "object")
            => ActivationFindsValid ]_vars

\* An activation that followed a successful setupHooks and left the file
\* alone.
C33_WitnessSkipped ==
    /\ last.op = "activate" /\ last.checked /\ ~last.setupCalled
    /\ last.check.exists /\ ~last.check.needsUpdate
    /\ last.pre = hooksFile

\* An activation that called setupHooks on a file which already held the
\* expected entries.
C33_WitnessSetupAgain ==
    /\ last.op = "activate" /\ last.setupCalled /\ last.success /\ ~last.modified
    /\ last.pre.t = "json" /\ last.pre.v.k = "object"
    /\ SomeCommand(Items(last.pre.v.hooks.beforeSubmitPrompt), Expected.startScript)
    /\ SomeCommand(Items(last.pre.v.hooks.stop), Expected.stopScript)
    /\ {Expected.startScript, Expected.stopScript} \subseteq onDisk

(* --------------------------------- C34 --------------------------------- *)

\* No entry of any hook kind of the file carries the marker.
NoOwnedEntries(file) ==
    \A arr \in {file.v.hooks.beforeSubmitPrompt, file.v.hooks.stop,
                 file.v.hooks.afterFileEdit} :
        \A i \in 1..Len(Items(arr)) : ~IsCursorBird(Items(arr)[i], EXTENSION_NAME)

\* setupHooks succeeded on a file without owned entries and the uninstall
\* script has run on what it left.
RoundTripDone ==
    /\ last.op = "setupHooks, uninstall" /\ last.success
    /\ NoOwnedEntries(last.pre)

\* The entries of the three hook kinds are those of the file setupHooks
\* found: nothing setupHooks added is left, and every entry that was there
\* is there, unchanged and in its place.
EntriesAsBefore ==
    /\ Items(hooksFile.v.hooks.beforeSubmitPrompt) = Items(last.pre.v.hooks.beforeSubmitPrompt)
    /\ Items(hooksFile.v.hooks.stop) = Items(last.pre.v.hooks.stop)
    /\ Items(hooksFile.v.hooks.afterFileEdit) = Items(last.pre.v.hooks.afterFileEdit)

C34_WitnessLeftBehind ==
    /\ RoundTripDone /\ last.modified /\ last.removedCount = 0
    /\ SomeCommand(Items(hooksFile.v.hooks.beforeSubmitPrompt), Expected.startScript)
    /\ ~SomeCommand(Items(last.pre.v.hooks.beforeSubmitPrompt), Expected.startScript)

(* --------------------------------- C36 --------------------------------- *)

\* The status file of w holds a positive count older than the threshold.
LeftStale(w) ==
    statusFile[w].activeCount > 0 /\ statusFile[w] = StatusStale(statusFile[w].activeCount)

\* C36: once the tracker of a window has read a status file whose positive
\* count is older than behavior.staleThreshold, it holds no active agents
\* and the file keeps no panel open that the tracker would close.
C36_StaleCountIsNoAgents ==
    \A w \in Workspaces :
        (ReadDoneFor(w) /\ LeftStale(w)) => tracker[w] = 0

\* The tracker has read a stale positive count and holds it, with the game
\* panel open.
C36_WitnessKeptOpen ==
    \E w \in Workspaces :
        /\ ReadDoneFor(w) /\ LeftStale(w)
        /\ tracker[w] = statusFile[w].activeCount /\ webviews[w].panel

(* --------------------------------- C35 --------------------------------- *)

\* C35: the best score in storage never decreases, except by the command
\* cursorBird.resetBestScore.
C35_StoredBestNeverDecreases ==
    [][ game'.storage < game.storage => ResetBestScore ]_vars

\* The game has scored before setBestScore reached it, and its report has
\* replaced a higher best score in storage: the game's best is what is
\* stored, and the setBestScore still in flight carries more.
C35_WitnessLowered ==
    /\ game.loaded /\ game.storage > 0
    /\ game.storage = game.page.best
    /\ \E i \in 1..Len(game.toWebview) :
          /\ game.toWebview[i].type = "setBestScore"
          /\ game.toWebview[i].bestScore > game.storage

(* --------------------------------- C37 --------------------------------- *)

\* C37: the game never runs while it is dead.
C37_RunningImpliesNotDead ==
    game.loaded => ~(game.page.running /\ game.page.dead)

\* The game runs while dead.
C37_WitnessRunningDead ==
    game.loaded /\ game.page.running /\ game.page.dead

\* The game comes to run while dead only when the start message reaches
\* a game that is dead: the flap key and the pause message never do it.
C37_OnlyStartMessageRevives ==
    [][ (/\ game.loaded /\ game'.loaded
         /\ game'.page.running /\ game'.page.dead
         /\ ~(game.page.running /\ game.page.dead))
            => (/\ DeliverToGame
                /\ Head(game.toWebview).type = "start"
                /\ game.page.dead) ]_vars

====
